---- MODULE Spec2Model ----
(***************************************************************************)
(* State-machine model of the anime-tracking admin backend (src/server.js). *)
(* The source file holds three revisions of the server:                    *)
(*   revision 1 (lines 1-1047)     in-memory collections, backup/rename     *)
(*                                 writeData;                               *)
(*   revision 2 (lines 1048-2649)  revision 1 plus bulk import, an import   *)
(*                                 that ignores write results, the browser  *)
(*                                 backup restore;                          *)
(*   revision 3 (lines 2650-3618)  file-backed: every handler re-reads the  *)
(*                                 JSON files, writeData writes in place.   *)
(* Spec, SpecAdd, SpecAnime, SpecFaults, SpecSyncLive, SpecRemove,         *)
(* SpecEpisodes, SpecList, SpecListLive, SpecDub, SpecSchedule and         *)
(* SpecRoundTrip run the handlers of revision 1, SpecStore its writeData   *)
(* and readData alone, SpecEpisodes2, SpecBulk and SpecBackup handlers of  *)
(* revision 2, SpecFB, SpecFBCheck and SpecFBAnime those of revision 3.    *)
(***************************************************************************)
EXTENDS Integers, Sequences, FiniteSets, TLC

VARIABLES
    customAnimeList,  \* in-memory anime collection (revisions 1, 2)
    episodes,         \* in-memory episode collection
    scheduledAnime,   \* in-memory scheduled collection
    animeCache,       \* Map: anime id -> cached provider summary
    disk,             \* the data directory: path -> content
    pending,          \* handlers suspended at `await axios.post(...)`
    clock,            \* Date.now()
    faultsLeft,       \* I/O errors the environment may still inject
    exportData,       \* body of the last /api/export response
    res               \* the last response sent (or value returned)

vars == <<customAnimeList, episodes, scheduledAnime, animeCache, disk,
          pending, clock, faultsLeft, exportData, res>>

(***************************************************************************)
(* Bounds of the model.                                                    *)
(***************************************************************************)
MaxAnime == 2      \* longest anime list
MaxEpisodes == 2   \* longest episode list
MaxScheduled == 2  \* longest scheduled list
MaxClock == 1      \* last clock value
MaxPending == 2    \* handlers suspended at the provider at one time
MaxFaults == 1     \* writeData calls that may fail in one run
MaxNumber == 3     \* largest episode number

(***************************************************************************)
(* JavaScript values that an episode `number` can take.                    *)
(***************************************************************************)
Num(n) == [t |-> "number", v |-> n]
Str == [t |-> "string", v |-> 0]         \* a non-empty, non-numeric string
NaN == [t |-> "NaN", v |-> 0]
Null == [t |-> "null", v |-> 0]
Undefined == [t |-> "undefined", v |-> 0]

\* JS truthiness, as used by `req.body.number || ...`.
Truthy(x) == \/ x.t = "string"
             \/ x.t = "number" /\ x.v # 0

\* JS ToNumber, as applied by Math.max to its arguments.
ToNumber(x) == CASE x.t = "number" -> x
                 [] x.t = "null" -> Num(0)
                 [] OTHER -> NaN

RECURSIVE MaxOf(_)
MaxOf(S) == IF Cardinality(S) = 1 THEN CHOOSE n \in S : TRUE
            ELSE LET n == CHOOSE m \in S : TRUE
                     r == MaxOf(S \ {n})
                 IN IF n > r THEN n ELSE r

\* Math.max(...xs) for a non-empty array xs: NaN if any argument converts to NaN.
MathMax(xs) ==
    LET ns == {ToNumber(xs[i]) : i \in DOMAIN xs}
    IN IF NaN \in ns THEN NaN ELSE Num(MaxOf({n.v : n \in ns}))

\* x + 1 for the result of Math.max.
PlusOne(x) == IF x.t = "NaN" THEN NaN ELSE Num(x.v + 1)

(***************************************************************************)
(* JSON.stringify / JSON.parse of a collection.  NaN is written as null;  *)
(* every other value of the model survives unchanged.                      *)
(***************************************************************************)
JsonValue(x) == IF x.t = "NaN" THEN Null ELSE x

JsonRecord(r) == IF "number" \in DOMAIN r
                 THEN [r EXCEPT !.number = JsonValue(@)]
                 ELSE r

JsonRoundTrip(xs) == [i \in DOMAIN xs |-> JsonRecord(xs[i])]

(***************************************************************************)
(* The data directory.                                                     *)
(***************************************************************************)
EPISODES_FILE == "episodes.json"
CUSTOM_ANIME_FILE == "custom_anime.json"
SCHEDULED_ANIME_FILE == "scheduled_anime.json"
Files == {EPISODES_FILE, CUSTOM_ANIME_FILE, SCHEDULED_ANIME_FILE}

\* `${filePath}.backup`, `${filePath}.temp`
Path(f) == <<f, "">>
BackupPath(f) == <<f, ".backup">>
TempPath(f) == <<f, ".temp">>
Paths == Files \X {"", ".backup", ".temp"}

Absent == [kind |-> "absent", data |-> <<>>]
Partial == [kind |-> "partial", data |-> <<>>]   \* truncated / half written
Json(xs) == [kind |-> "json", data |-> JsonRoundTrip(xs)]

existsSync(d, p) == d[p].kind # "absent"

\* fs.copyFileSync(src, dst).  On an error Node may have left dst untouched,
\* removed it, or left it half written.
copyFileSync(d, src, dst, canFail) ==
    IF ~existsSync(d, src)
    THEN {[threw |-> TRUE, d |-> d]}
    ELSE {[threw |-> FALSE, d |-> [d EXCEPT ![dst] = d[src]]]}
         \cup (IF canFail
               THEN {[threw |-> TRUE, d |-> d],
                     [threw |-> TRUE, d |-> [d EXCEPT ![dst] = Absent]],
                     [threw |-> TRUE, d |-> [d EXCEPT ![dst] = Partial]]}
               ELSE {})

\* fs.writeFileSync(p, JSON.stringify(data, null, 2)).
writeFileSync(d, p, data, canFail) ==
    {[threw |-> FALSE, d |-> [d EXCEPT ![p] = Json(data)]]}
    \cup (IF canFail
          THEN {[threw |-> TRUE, d |-> d],
                [threw |-> TRUE, d |-> [d EXCEPT ![p] = Partial]]}
          ELSE {})

\* fs.renameSync(from, to): atomic.
renameSync(d, from, to, canFail) ==
    {[threw |-> FALSE, d |-> [d EXCEPT ![to] = d[from], ![from] = Absent]]}
    \cup (IF canFail THEN {[threw |-> TRUE, d |-> d]} ELSE {})

\* The catch block of writeData without its inner try: an error of the
\* restoring copy leaves writeData as an exception.
restoreBackupUnguarded(d, f) ==
    IF existsSync(d, BackupPath(f))
    THEN {[ok |-> FALSE, threw |-> o.threw, d |-> o.d] :
             o \in copyFileSync(d, BackupPath(f), Path(f), TRUE)}
    ELSE {[ok |-> FALSE, threw |-> FALSE, d |-> d]}

\* The catch block of writeData: restore the backup, swallow any error.
restoreBackup(d, f) ==
    IF existsSync(d, BackupPath(f))
    THEN {[ok |-> FALSE, threw |-> FALSE, d |-> o.d] :
             o \in copyFileSync(d, BackupPath(f), Path(f), TRUE)}
    ELSE {[ok |-> FALSE, threw |-> FALSE, d |-> d]}

\* writeData(filePath, data) of revisions 1 and 2: the set of its outcomes
\* [ok |-> returned value, threw |-> an exception reached the caller,
\*  d |-> directory afterwards].
writeData(d, f, data, canFail) ==
    LET s1 == IF existsSync(d, Path(f))
              THEN copyFileSync(d, Path(f), BackupPath(f), canFail)
              ELSE {[threw |-> FALSE, d |-> d]}
        s2 == UNION {IF o.threw THEN {o}
                     ELSE writeFileSync(o.d, TempPath(f), data, canFail) : o \in s1}
        s3 == UNION {IF o.threw THEN {o}
                     ELSE renameSync(o.d, TempPath(f), Path(f), canFail) : o \in s2}
    IN UNION {IF o.threw THEN restoreBackup(o.d, f)
              ELSE {[ok |-> TRUE, threw |-> FALSE, d |-> o.d]} : o \in s3}

\* A readData whose catch block falls back on the backup file.
readDataFromBackup(d, f) ==
    IF d[Path(f)].kind = "json" THEN d[Path(f)].data ELSE d[BackupPath(f)].data

\* readData(filePath): the parsed array, [] when the file is missing or corrupt.
readData(d, f) == IF d[Path(f)].kind = "json" THEN d[Path(f)].data ELSE <<>>

\* initializeDataFile for the three files, in a fresh data directory.
InitialDisk == [p \in Paths |-> IF p[2] = "" THEN Json(<<>>) ELSE Absent]

NoRes == [op |-> "none", status |-> 0]
NoExport == [exported |-> FALSE, anime |-> <<>>, episodes |-> <<>>, scheduled |-> <<>>]

(***************************************************************************)
(* Revision 1: the in-memory server (src/server.js lines 1-1047).          *)
(***************************************************************************)
AnimeIds == {1, 2}        \* provider ids used by the requests
NoId == 0                 \* a missing / falsy anilistId
DatePast == 0             \* a release date before every clock value
DateFuture == MaxClock + 1  \* a release date after every clock value

\* Map operations of animeCache.
EmptyMap == [i \in {} |-> FALSE]
MapSet(m, k, v) == [j \in DOMAIN m \cup {k} |-> IF j = k THEN v ELSE m[j]]
MapDelete(m, k) == [j \in DOMAIN m \ {k} |-> m[j]]

\* formatAnimeData(response.data), reduced to the fields the handlers touch.
formatAnimeData(id) == [id |-> id, hasTagalogDub |-> FALSE]

\* Array helpers.
Filter(xs, Keep(_)) == SelectSeq(xs, Keep)
FindIndex(xs, Test(_)) ==
    IF \E i \in DOMAIN xs : Test(xs[i])
    THEN CHOOSE i \in DOMAIN xs : Test(xs[i]) /\ \A j \in 1..(i - 1) : ~Test(xs[j])
    ELSE 0
Splice(xs, i) == [j \in 1..(Len(xs) - 1) |-> IF j < i THEN xs[j] ELSE xs[j + 1]]
Some(xs, Test(_)) == \E i \in DOMAIN xs : Test(xs[i])

\* { ...old, ...patch, id: keepId }
MergePatch(old, patch, keepId) ==
    [f \in DOMAIN old \cup DOMAIN patch \cup {"id"} |->
        IF f = "id" THEN keepId
        ELSE IF f \in DOMAIN patch THEN patch[f] ELSE old[f]]

\* customAnimeList[animeIndex].hasTagalogDub = true
SetDub(list, id, b) ==
    LET k == FindIndex(list, LAMBDA a : a.id = id)
    IN IF k = 0 THEN list ELSE [list EXCEPT ![k].hasTagalogDub = b]

\* cachedAnime.hasTagalogDub = b, when the cache has the id
CacheSetDub(m, id, b) ==
    IF id \in DOMAIN m THEN [m EXCEPT ![id].hasTagalogDub = b] ELSE m

\* Once no further I/O error can be injected nothing reads a .backup or
\* .temp file again (only the catch block of writeData does): the model
\* stops tracking their content.
Settle(d, n) ==
    IF n > 0 THEN d ELSE [p \in Paths |-> IF p[2] = "" THEN d[p] ELSE Absent]

\* One writeData call with n I/O errors left to inject: [ok, d, n].
Write(d, n, f, data) ==
    {LET m == IF o.ok THEN n ELSE n - 1
     IN [ok |-> o.ok, d |-> Settle(o.d, m), n |-> m] :
        o \in writeData(d, f, data, n > 0)}

\* writeData(f1, x1) && writeData(f2, x2) && ...: stops at the first false.
RECURSIVE WriteAll(_, _, _)
WriteAll(d, n, ws) ==
    IF ws = <<>> THEN {[ok |-> TRUE, d |-> d, n |-> n]}
    ELSE UNION {IF o.ok THEN WriteAll(o.d, o.n, Tail(ws)) ELSE {o} :
                   o \in Write(d, n, ws[1][1], ws[1][2])}

\* The server after start-up: the collections are loaded from the data files.
Startup(d) ==
    /\ disk = d
    /\ customAnimeList = readData(d, CUSTOM_ANIME_FILE)
    /\ episodes = readData(d, EPISODES_FILE)
    /\ scheduledAnime = readData(d, SCHEDULED_ANIME_FILE)
    /\ animeCache = EmptyMap
    /\ pending = <<>>
    /\ clock = 0
    /\ exportData = NoExport
    /\ res = NoRes

\* Date.now() advances.
Tick ==
    /\ clock < MaxClock
    /\ clock' = clock + 1
    /\ res' = NoRes
    /\ UNCHANGED <<customAnimeList, episodes, scheduledAnime, animeCache, disk,
                   pending, faultsLeft, exportData>>

\* formatAnimeData(response.data) as the GET handlers cache it: with the
\* dub flag of the stored entry (false when there is none) and the
\* dateAdded of line 207, `new Date().toISOString()`.
AnimeDetail(id, list) ==
    LET k == FindIndex(list, LAMBDA a : a.id = id)
    IN [id |-> id,
        hasTagalogDub |-> IF k # 0 /\ "hasTagalogDub" \in DOMAIN list[k]
                          THEN list[k].hasTagalogDub ELSE FALSE,
        dateAdded |-> clock]

\* The for loop of GET /api/anime from item st.k on, up to the next
\* `await axios.post(...)` (an item that is not cached) or the end of the
\* list.  An item of the answer is the anime's id and where it was taken from.
RECURSIVE ListAnimeLoop(_, _, _)
ListAnimeLoop(list, cache, st) ==
    IF st.k > Len(list) THEN st
    ELSE IF list[st.k].id \in DOMAIN cache
    THEN ListAnimeLoop(list, cache,
             [st EXCEPT !.k = @ + 1,
                        !.out = Append(@, [id |-> list[st.k].id, from |-> "cache"])])
    ELSE st

\* GET /api/anime up to its first `await`, or to its answer when every
\* anime is cached.
ListAnimeBegin ==
    LET st == ListAnimeLoop(customAnimeList, animeCache,
                            [op |-> "listAnime", k |-> 1, out |-> <<>>])
    IN /\ IF st.k > Len(customAnimeList)
          THEN /\ res' = [op |-> "listAnime", status |-> 200, items |-> st.out]
               /\ UNCHANGED pending
          ELSE /\ Len(pending) < MaxPending
               /\ pending' = Append(pending, st)
               /\ res' = NoRes
       /\ UNCHANGED <<customAnimeList, episodes, scheduledAnime, animeCache, disk,
                      clock, faultsLeft, exportData>>

\* GET /api/anime whose inner catch were missing: a provider failure
\* reaches the outer catch and the request is answered 500.
ListAnimeResumeFailing(i, provider) ==
    LET rq == pending[i]
        animeInfo == customAnimeList[rq.k]
        cache == MapSet(animeCache, animeInfo.id, AnimeDetail(animeInfo.id, customAnimeList))
        st == ListAnimeLoop(customAnimeList, cache,
                  [rq EXCEPT !.k = @ + 1,
                             !.out = Append(@, [id |-> animeInfo.id, from |-> "provider"])])
    IN /\ rq.op = "listAnime"
       /\ rq.k <= Len(customAnimeList)
       /\ IF provider # "ok"
          THEN /\ res' = [op |-> "listAnime", status |-> 500, items |-> <<>>]
               /\ pending' = Splice(pending, i)
               /\ UNCHANGED animeCache
          ELSE /\ animeCache' = cache
               /\ IF st.k > Len(customAnimeList)
                  THEN /\ res' = [op |-> "listAnime", status |-> 200, items |-> st.out]
                       /\ pending' = Splice(pending, i)
                  ELSE /\ res' = NoRes
                       /\ pending' = [pending EXCEPT ![i] = st]
       /\ UNCHANGED <<customAnimeList, episodes, scheduledAnime, disk, clock,
                      faultsLeft, exportData>>

\* GET /api/anime from the provider's answer for item rq.k on, up to the
\* next `await` or to the answer.
ListAnimeResume(i, provider) ==
    LET rq == pending[i]
        animeInfo == customAnimeList[rq.k]
        cache == IF provider = "ok"
                 THEN MapSet(animeCache, animeInfo.id,
                             AnimeDetail(animeInfo.id, customAnimeList))
                 ELSE animeCache
        item == [id |-> animeInfo.id,
                 from |-> IF provider = "ok" THEN "provider" ELSE "stored"]
        st == ListAnimeLoop(customAnimeList, cache,
                  [rq EXCEPT !.k = @ + 1, !.out = Append(@, item)])
    IN /\ rq.op = "listAnime"
       /\ rq.k <= Len(customAnimeList)
       /\ animeCache' = cache
       /\ IF st.k > Len(customAnimeList)
          THEN /\ res' = [op |-> "listAnime", status |-> 200, items |-> st.out]
               /\ pending' = Splice(pending, i)
          ELSE /\ res' = NoRes
               /\ pending' = [pending EXCEPT ![i] = st]
       /\ UNCHANGED <<customAnimeList, episodes, scheduledAnime, disk, clock,
                      faultsLeft, exportData>>

\* GET /api/anime/:id up to `await axios.post(...)`, or to its answer when
\* the anime is cached.
GetAnimeBegin(animeId) ==
    /\ IF animeId \in DOMAIN animeCache
       THEN /\ res' = [op |-> "getAnime", status |-> 200, id |-> animeId,
                       from |-> "cache"]
            /\ UNCHANGED pending
       ELSE /\ Len(pending) < MaxPending
            /\ pending' = Append(pending, [op |-> "getAnime", anilistId |-> animeId])
            /\ res' = NoRes
    /\ UNCHANGED <<customAnimeList, episodes, scheduledAnime, animeCache, disk,
                   clock, faultsLeft, exportData>>

\* GET /api/anime/:id from the provider's answer on.
GetAnimeEnd(i, provider) ==
    LET rq == pending[i]
    IN /\ rq.op = "getAnime"
       /\ pending' = Splice(pending, i)
       /\ IF provider = "ok"
          THEN /\ animeCache' = MapSet(animeCache, rq.anilistId,
                                       AnimeDetail(rq.anilistId, customAnimeList))
               /\ res' = [op |-> "getAnime", status |-> 200, id |-> rq.anilistId,
                          from |-> "provider"]
          ELSE /\ UNCHANGED animeCache
               /\ res' = [op |-> "getAnime",
                          status |-> IF Some(customAnimeList,
                                             LAMBDA a : a.id = rq.anilistId)
                                     THEN 200 ELSE 404,
                          id |-> rq.anilistId, from |-> "stored"]
       /\ UNCHANGED <<customAnimeList, episodes, scheduledAnime, disk, clock,
                      faultsLeft, exportData>>

\* POST /api/anime up to `await axios.post(...)`.
PostAnimeBegin(anilistId, dub) ==
    /\ IF anilistId = NoId
       THEN /\ res' = [op |-> "postAnime", status |-> 400]
            /\ UNCHANGED pending
       ELSE IF Some(customAnimeList, LAMBDA a : a.id = anilistId)
       THEN /\ res' = [op |-> "postAnime", status |-> 400]
            /\ UNCHANGED pending
       ELSE /\ Len(pending) < MaxPending
            /\ pending' = Append(pending, [op |-> "postAnime", anilistId |-> anilistId,
                                            flag |-> dub, date |-> Null])
            /\ res' = NoRes
    /\ UNCHANGED <<customAnimeList, episodes, scheduledAnime, animeCache, disk,
                   clock, faultsLeft, exportData>>

\* POST /api/anime whose catch block adds a stub entry for the id when the
\* provider call failed.
PostAnimeEndStub(i, provider) ==
    LET rq == pending[i]
        list == Append(customAnimeList, [id |-> rq.anilistId, hasTagalogDub |-> rq.flag])
    IN /\ rq.op = "postAnime"
       /\ pending' = Splice(pending, i)
       /\ Len(customAnimeList) < MaxAnime
       /\ customAnimeList' = list
       /\ \E o \in Write(disk, faultsLeft, CUSTOM_ANIME_FILE, list) :
            /\ disk' = o.d
            /\ faultsLeft' = o.n
            /\ animeCache' = IF o.ok /\ provider = "ok"
                             THEN MapSet(animeCache, rq.anilistId,
                                         [formatAnimeData(rq.anilistId)
                                             EXCEPT !.hasTagalogDub = rq.flag])
                             ELSE animeCache
            /\ res' = [op |-> "postAnime", status |-> IF o.ok THEN 201 ELSE 500]
       /\ UNCHANGED <<episodes, scheduledAnime, clock, exportData>>

\* POST /api/anime from the provider's answer on.
PostAnimeEnd(i, provider) ==
    LET rq == pending[i]
        list == Append(customAnimeList, [id |-> rq.anilistId, hasTagalogDub |-> rq.flag])
    IN /\ rq.op = "postAnime"
       /\ pending' = Splice(pending, i)
       /\ IF provider # "ok"
          THEN /\ res' = [op |-> "postAnime",
                          status |-> IF provider = "apiError" THEN 400 ELSE 500]
               /\ UNCHANGED <<customAnimeList, animeCache, disk, faultsLeft>>
          ELSE /\ Len(customAnimeList) < MaxAnime
               /\ customAnimeList' = list
               /\ \E o \in Write(disk, faultsLeft, CUSTOM_ANIME_FILE, list) :
                    /\ disk' = o.d
                    /\ faultsLeft' = o.n
                    /\ IF o.ok
                       THEN /\ animeCache' = MapSet(animeCache, rq.anilistId,
                                 [formatAnimeData(rq.anilistId)
                                     EXCEPT !.hasTagalogDub = rq.flag])
                            /\ res' = [op |-> "postAnime", status |-> 201]
                       ELSE /\ UNCHANGED animeCache
                            /\ res' = [op |-> "postAnime", status |-> 500]
       /\ UNCHANGED <<episodes, scheduledAnime, clock, exportData>>

\* `Episode ${n}` or the given title.
EpisodeTitle(n) == [text |-> "Episode", n |-> n]

\* POST /api/episodes without the test of lines 573-575: the episode is
\* appended and written whether or not its anime is tracked.
PostEpisodeUnchecked(body) ==
    LET newEpisode == [id |-> clock,
                       animeId |-> body.animeId,
                       title |-> EpisodeTitle(Num(1)),
                       number |-> Num(1),
                       iframeSrc |-> body.iframeSrc,
                       hasTagalogDub |-> body.hasTagalogDub]
        eps == Append(episodes, newEpisode)
    IN /\ Len(episodes) < MaxEpisodes
       /\ episodes' = eps
       /\ disk' = [disk EXCEPT ![Path(EPISODES_FILE)] = Json(eps)]
       /\ res' = [op |-> "postEpisode", status |-> 201]
       /\ UNCHANGED <<customAnimeList, scheduledAnime, animeCache, pending, clock,
                      faultsLeft, exportData>>

\* POST /api/episodes.
PostEpisode(body) ==
    LET existingEpisodes == Filter(episodes, LAMBDA e : e.animeId = body.animeId)
        nextEpisodeNumber ==
            IF Truthy(body.number) THEN body.number
            ELSE IF Len(existingEpisodes) > 0
                 THEN PlusOne(MathMax([k \in DOMAIN existingEpisodes |->
                                         existingEpisodes[k].number]))
                 ELSE Num(1)
        newEpisode == [id |-> clock,
                       animeId |-> body.animeId,
                       title |-> EpisodeTitle(nextEpisodeNumber),
                       number |-> nextEpisodeNumber,
                       iframeSrc |-> body.iframeSrc,
                       hasTagalogDub |-> body.hasTagalogDub]
        eps == Append(episodes, newEpisode)
        list == SetDub(customAnimeList, body.animeId, TRUE)
    IN IF ~Some(customAnimeList, LAMBDA a : a.id = body.animeId)
       THEN /\ res' = [op |-> "postEpisode", status |-> 404]
            /\ UNCHANGED <<customAnimeList, episodes, scheduledAnime, animeCache,
                           disk, pending, clock, faultsLeft, exportData>>
       ELSE /\ Len(episodes) < MaxEpisodes
            /\ nextEpisodeNumber.v <= MaxNumber
            /\ episodes' = eps
            /\ \E o \in Write(disk, faultsLeft, EPISODES_FILE, eps) :
                 IF ~o.ok
                 THEN /\ disk' = o.d
                      /\ faultsLeft' = o.n
                      /\ res' = [op |-> "postEpisode", status |-> 500]
                      /\ UNCHANGED <<customAnimeList, animeCache>>
                 ELSE IF body.hasTagalogDub
                 THEN \E o2 \in Write(o.d, o.n, CUSTOM_ANIME_FILE, list) :
                         /\ customAnimeList' = list
                         /\ disk' = o2.d
                         /\ faultsLeft' = o2.n
                         /\ animeCache' = CacheSetDub(animeCache, body.animeId, TRUE)
                         /\ res' = [op |-> "postEpisode", status |-> 201]
                 ELSE /\ disk' = o.d
                      /\ faultsLeft' = o.n
                      /\ res' = [op |-> "postEpisode", status |-> 201]
                      /\ UNCHANGED <<customAnimeList, animeCache>>
            /\ UNCHANGED <<scheduledAnime, pending, clock, exportData>>

\* POST /api/scheduled up to `await axios.post(...)`.
\* releaseDate: Null when missing, Str when unparsable, Num(d) when a date.
PostScheduledBegin(anilistId, releaseDate, dub) ==
    /\ IF anilistId = NoId \/ releaseDate.t = "null" \/ releaseDate.t = "string"
       THEN /\ res' = [op |-> "postScheduled", status |-> 400]
            /\ UNCHANGED pending
       ELSE /\ Len(pending) < MaxPending
            /\ pending' = Append(pending, [op |-> "postScheduled", anilistId |-> anilistId,
                                            flag |-> dub, date |-> releaseDate])
            /\ res' = NoRes
    /\ UNCHANGED <<customAnimeList, episodes, scheduledAnime, animeCache, disk,
                   clock, faultsLeft, exportData>>

\* POST /api/scheduled from the provider's answer on.
PostScheduledEnd(i, provider) ==
    LET rq == pending[i]
        newScheduledAnime == [id |-> clock,
                              animeId |-> rq.anilistId,
                              releaseDate |-> rq.date,
                              hasTagalogDub |-> rq.flag,
                              dateAdded |-> clock]
        list == Append(scheduledAnime, newScheduledAnime)
    IN /\ rq.op = "postScheduled"
       /\ pending' = Splice(pending, i)
       /\ IF provider # "ok"
          THEN /\ res' = [op |-> "postScheduled",
                          status |-> IF provider = "apiError" THEN 400 ELSE 500]
               /\ UNCHANGED <<scheduledAnime, disk, faultsLeft>>
          ELSE /\ Len(scheduledAnime) < MaxScheduled
               /\ scheduledAnime' = list
               /\ \E o \in Write(disk, faultsLeft, SCHEDULED_ANIME_FILE, list) :
                    /\ disk' = o.d
                    /\ faultsLeft' = o.n
                    /\ res' = [op |-> "postScheduled",
                               status |-> IF o.ok THEN 201 ELSE 500]
       /\ UNCHANGED <<customAnimeList, episodes, animeCache, clock, exportData>>

\* PUT /api/episodes/:id.
PutEpisode(episodeId, patch) ==
    LET episodeIndex == FindIndex(episodes, LAMBDA e : e.id = episodeId)
        merged == MergePatch(episodes[episodeIndex], patch, episodeId)
        eps == [episodes EXCEPT ![episodeIndex] = merged]
        \* tested after the merge, as in the source
        firstDub == /\ "hasTagalogDub" \in DOMAIN patch
                    /\ patch.hasTagalogDub = TRUE
                    /\ merged.hasTagalogDub # TRUE
        animeIndex == FindIndex(customAnimeList, LAMBDA a : a.id = merged.animeId)
        list == SetDub(customAnimeList, merged.animeId, TRUE)
    IN IF episodeIndex = 0
       THEN /\ res' = [op |-> "putEpisode", status |-> 404]
            /\ UNCHANGED <<customAnimeList, episodes, scheduledAnime, animeCache,
                           disk, pending, clock, faultsLeft, exportData>>
       ELSE /\ episodes' = eps
            /\ IF firstDub /\ animeIndex # 0
               THEN \E o1 \in Write(disk, faultsLeft, CUSTOM_ANIME_FILE, list) :
                    \E o \in Write(o1.d, o1.n, EPISODES_FILE, eps) :
                       /\ customAnimeList' = list
                       /\ animeCache' = CacheSetDub(animeCache, merged.animeId, TRUE)
                       /\ disk' = o.d
                       /\ faultsLeft' = o.n
                       /\ res' = [op |-> "putEpisode",
                                  status |-> IF o.ok THEN 200 ELSE 500]
               ELSE \E o \in Write(disk, faultsLeft, EPISODES_FILE, eps) :
                       /\ disk' = o.d
                       /\ faultsLeft' = o.n
                       /\ res' = [op |-> "putEpisode",
                                  status |-> IF o.ok THEN 200 ELSE 500]
                       /\ UNCHANGED <<customAnimeList, animeCache>>
            /\ UNCHANGED <<scheduledAnime, pending, clock, exportData>>

\* PUT /api/scheduled/:id.
PutScheduled(scheduleId, patch) ==
    LET scheduleIndex == FindIndex(scheduledAnime, LAMBDA x : x.id = scheduleId)
        list == [scheduledAnime EXCEPT
                    ![scheduleIndex] = MergePatch(@, patch, scheduleId)]
    IN /\ IF scheduleIndex = 0
          THEN /\ res' = [op |-> "putScheduled", status |-> 404]
               /\ UNCHANGED <<scheduledAnime, disk, faultsLeft>>
          ELSE IF "releaseDate" \in DOMAIN patch /\ patch.releaseDate.t = "string"
          THEN /\ res' = [op |-> "putScheduled", status |-> 400]
               /\ UNCHANGED <<scheduledAnime, disk, faultsLeft>>
          ELSE /\ scheduledAnime' = list
               /\ \E o \in Write(disk, faultsLeft, SCHEDULED_ANIME_FILE, list) :
                    /\ disk' = o.d
                    /\ faultsLeft' = o.n
                    /\ res' = [op |-> "putScheduled",
                               status |-> IF o.ok THEN 200 ELSE 500]
       /\ UNCHANGED <<customAnimeList, episodes, animeCache, pending, clock, exportData>>

\* PUT /api/anime/:id/tagalog; hasTagalogDub is given (a boolean).
PutAnimeTagalog(animeId, hasTagalogDub) ==
    LET animeIndex == FindIndex(customAnimeList, LAMBDA a : a.id = animeId)
        list == SetDub(customAnimeList, animeId, hasTagalogDub)
    IN /\ IF animeIndex = 0
          THEN /\ res' = [op |-> "putAnimeTagalog", status |-> 404]
               /\ UNCHANGED <<customAnimeList, animeCache, disk, faultsLeft>>
          ELSE /\ customAnimeList' = list
               /\ \E o \in Write(disk, faultsLeft, CUSTOM_ANIME_FILE, list) :
                    /\ disk' = o.d
                    /\ faultsLeft' = o.n
                    /\ animeCache' = IF o.ok
                                     THEN CacheSetDub(animeCache, animeId, hasTagalogDub)
                                     ELSE animeCache
                    /\ res' = [op |-> "putAnimeTagalog",
                               status |-> IF o.ok THEN 200 ELSE 500]
       /\ UNCHANGED <<episodes, scheduledAnime, pending, clock, exportData>>

\* A removal that puts the collections back when a write fails: what
\* DELETE /api/anime/:id would be if it rolled back.
DeleteAnimeRollback(animeId) ==
    LET list == Filter(customAnimeList, LAMBDA a : a.id # animeId)
        eps == Filter(episodes, LAMBDA e : e.animeId # animeId)
        sched == Filter(scheduledAnime, LAMBDA x : x.animeId # animeId)
    IN /\ animeCache' = MapDelete(animeCache, animeId)
       /\ \E o \in WriteAll(disk, faultsLeft, << <<CUSTOM_ANIME_FILE, list>>,
                                                <<EPISODES_FILE, eps>>,
                                                <<SCHEDULED_ANIME_FILE, sched>> >>) :
            /\ disk' = o.d
            /\ faultsLeft' = o.n
            /\ customAnimeList' = IF o.ok THEN list ELSE customAnimeList
            /\ episodes' = IF o.ok THEN eps ELSE episodes
            /\ scheduledAnime' = IF o.ok THEN sched ELSE scheduledAnime
            /\ res' = [op |-> "deleteAnime", status |-> IF o.ok THEN 200 ELSE 500,
                       id |-> animeId]
       /\ UNCHANGED <<pending, clock, exportData>>

\* DELETE /api/anime/:id.
DeleteAnime(animeId) ==
    LET list == Filter(customAnimeList, LAMBDA a : a.id # animeId)
        eps == Filter(episodes, LAMBDA e : e.animeId # animeId)
        sched == Filter(scheduledAnime, LAMBDA x : x.animeId # animeId)
    IN /\ customAnimeList' = list
       /\ episodes' = eps
       /\ scheduledAnime' = sched
       /\ animeCache' = MapDelete(animeCache, animeId)
       /\ \E o \in WriteAll(disk, faultsLeft, << <<CUSTOM_ANIME_FILE, list>>,
                                                <<EPISODES_FILE, eps>>,
                                                <<SCHEDULED_ANIME_FILE, sched>> >>) :
            /\ disk' = o.d
            /\ faultsLeft' = o.n
            /\ res' = [op |-> "deleteAnime", status |-> IF o.ok THEN 200 ELSE 500,
                       id |-> animeId]
       /\ UNCHANGED <<pending, clock, exportData>>

\* DELETE /api/episodes/:id.
\* A removal that drops every episode carrying the id, not the first alone.
DeleteEpisodeEvery(episodeId) ==
    LET eps == Filter(episodes, LAMBDA e : e.id # episodeId)
    IN /\ IF ~Some(episodes, LAMBDA e : e.id = episodeId)
          THEN /\ res' = [op |-> "deleteEpisode", status |-> 404]
               /\ UNCHANGED <<episodes, disk, faultsLeft>>
          ELSE /\ episodes' = eps
               /\ \E o \in Write(disk, faultsLeft, EPISODES_FILE, eps) :
                    /\ disk' = o.d
                    /\ faultsLeft' = o.n
                    /\ res' = [op |-> "deleteEpisode",
                               status |-> IF o.ok THEN 200 ELSE 500]
       /\ UNCHANGED <<customAnimeList, scheduledAnime, animeCache, pending, clock,
                      exportData>>

DeleteEpisode(episodeId) ==
    LET episodeIndex == FindIndex(episodes, LAMBDA e : e.id = episodeId)
        eps == Splice(episodes, episodeIndex)
    IN /\ IF episodeIndex = 0
          THEN /\ res' = [op |-> "deleteEpisode", status |-> 404]
               /\ UNCHANGED <<episodes, disk, faultsLeft>>
          ELSE /\ episodes' = eps
               /\ \E o \in Write(disk, faultsLeft, EPISODES_FILE, eps) :
                    /\ disk' = o.d
                    /\ faultsLeft' = o.n
                    /\ res' = [op |-> "deleteEpisode",
                               status |-> IF o.ok THEN 200 ELSE 500]
       /\ UNCHANGED <<customAnimeList, scheduledAnime, animeCache, pending, clock,
                      exportData>>

\* DELETE /api/scheduled/:id.
DeleteScheduled(scheduleId) ==
    LET scheduleIndex == FindIndex(scheduledAnime, LAMBDA x : x.id = scheduleId)
        list == Splice(scheduledAnime, scheduleIndex)
    IN /\ IF scheduleIndex = 0
          THEN /\ res' = [op |-> "deleteScheduled", status |-> 404]
               /\ UNCHANGED <<scheduledAnime, disk, faultsLeft>>
          ELSE /\ scheduledAnime' = list
               /\ \E o \in Write(disk, faultsLeft, SCHEDULED_ANIME_FILE, list) :
                    /\ disk' = o.d
                    /\ faultsLeft' = o.n
                    /\ res' = [op |-> "deleteScheduled",
                               status |-> IF o.ok THEN 200 ELSE 500]
       /\ UNCHANGED <<customAnimeList, episodes, animeCache, pending, clock, exportData>>

\* The body GET /api/export sends: res.json serialises the three arrays.
ExportBody == [exported |-> TRUE,
               anime |-> JsonRoundTrip(customAnimeList),
               episodes |-> JsonRoundTrip(episodes),
               scheduled |-> JsonRoundTrip(scheduledAnime)]

\* GET /api/export.
Export ==
    /\ exportData' = ExportBody
    /\ res' = [op |-> "export", status |-> 200]
    /\ UNCHANGED <<customAnimeList, episodes, scheduledAnime, animeCache, disk,
                   pending, clock, faultsLeft>>

\* The three arrays of an import body, and those of its fields on which
\* Array.isArray is true: importData.arrays names them; a body without that
\* field (an export of the server) has all three.
ImportFields == {"anime", "episodes", "scheduled"}
ArrayFields(importData) ==
    IF "arrays" \in DOMAIN importData THEN importData.arrays ELSE ImportFields

\* An import that validates `anime` only.
ImportAnimeOnly(importData) ==
    /\ IF ~importData.exported \/ "anime" \notin ArrayFields(importData)
       THEN /\ res' = [op |-> "import", status |-> 400, body |-> importData]
            /\ UNCHANGED <<customAnimeList, episodes, scheduledAnime, animeCache,
                           disk, faultsLeft>>
       ELSE /\ customAnimeList' = importData.anime
            /\ episodes' = importData.episodes
            /\ scheduledAnime' = importData.scheduled
            /\ animeCache' = EmptyMap
            /\ \E o \in WriteAll(disk, faultsLeft,
                                 << <<CUSTOM_ANIME_FILE, importData.anime>>,
                                    <<EPISODES_FILE, importData.episodes>>,
                                    <<SCHEDULED_ANIME_FILE, importData.scheduled>> >>) :
                 /\ disk' = o.d
                 /\ faultsLeft' = o.n
                 /\ res' = [op |-> "import", status |-> IF o.ok THEN 200 ELSE 500,
                            body |-> importData]
    /\ UNCHANGED <<pending, clock, exportData>>

\* An import that merges the body's anime into the library and keeps the
\* cache: what POST /api/import would be if it were not a wholesale replace.
ImportMerging(importData) ==
    /\ IF ~importData.exported \/ ArrayFields(importData) # ImportFields
       THEN /\ res' = [op |-> "import", status |-> 400, body |-> importData]
            /\ UNCHANGED <<customAnimeList, episodes, scheduledAnime, animeCache,
                           disk, faultsLeft>>
       ELSE /\ customAnimeList' = customAnimeList \o importData.anime
            /\ episodes' = importData.episodes
            /\ scheduledAnime' = importData.scheduled
            /\ UNCHANGED animeCache
            /\ \E o \in WriteAll(disk, faultsLeft,
                                 << <<CUSTOM_ANIME_FILE, customAnimeList \o importData.anime>>,
                                    <<EPISODES_FILE, importData.episodes>>,
                                    <<SCHEDULED_ANIME_FILE, importData.scheduled>> >>) :
                 /\ disk' = o.d
                 /\ faultsLeft' = o.n
                 /\ res' = [op |-> "import", status |-> IF o.ok THEN 200 ELSE 500,
                            body |-> importData]
    /\ UNCHANGED <<pending, clock, exportData>>

\* POST /api/import.  importData.exported = FALSE stands for a body that is
\* no object.
Import(importData) ==
    /\ IF ~importData.exported \/ ArrayFields(importData) # ImportFields
       THEN /\ res' = [op |-> "import", status |-> 400, body |-> importData]
            /\ UNCHANGED <<customAnimeList, episodes, scheduledAnime, animeCache,
                           disk, faultsLeft>>
       ELSE /\ customAnimeList' = importData.anime
            /\ episodes' = importData.episodes
            /\ scheduledAnime' = importData.scheduled
            /\ animeCache' = EmptyMap
            /\ \E o \in WriteAll(disk, faultsLeft,
                                 << <<CUSTOM_ANIME_FILE, importData.anime>>,
                                    <<EPISODES_FILE, importData.episodes>>,
                                    <<SCHEDULED_ANIME_FILE, importData.scheduled>> >>) :
                 /\ disk' = o.d
                 /\ faultsLeft' = o.n
                 /\ res' = [op |-> "import", status |-> IF o.ok THEN 200 ELSE 500,
                            body |-> importData]
    /\ UNCHANGED <<pending, clock, exportData>>

\* A sync that writes the anime collection alone.
SyncAnimeOnly ==
    /\ \E o1 \in Write(disk, faultsLeft, CUSTOM_ANIME_FILE, customAnimeList) :
          /\ disk' = o1.d
          /\ faultsLeft' = o1.n
    /\ res' = NoRes
    /\ UNCHANGED <<customAnimeList, episodes, scheduledAnime, animeCache, pending,
                   clock, exportData>>

\* The sync timer: writes the three collections, ignoring the results.
SyncToDisk ==
    /\ \E o1 \in Write(disk, faultsLeft, CUSTOM_ANIME_FILE, customAnimeList) :
       \E o2 \in Write(o1.d, o1.n, EPISODES_FILE, episodes) :
       \E o3 \in Write(o2.d, o2.n, SCHEDULED_ANIME_FILE, scheduledAnime) :
          /\ disk' = o3.d
          /\ faultsLeft' = o3.n
    /\ res' = NoRes
    /\ UNCHANGED <<customAnimeList, episodes, scheduledAnime, animeCache, pending,
                   clock, exportData>>

(***************************************************************************)
(* Spec: the anime and episode handlers of revision 1, from an empty data  *)
(* directory, without I/O errors.                                          *)
(***************************************************************************)
ProviderOutcomes == {"ok", "apiError", "networkError"}
EpisodeIds == 0..MaxClock

EpisodeBodies ==
    [animeId : AnimeIds, number : {Undefined, Num(1)}, iframeSrc : {"u"},
     hasTagalogDub : {FALSE}]

EpisodePatches == {[animeId |-> 2], [id |-> MaxClock + 1, iframeSrc |-> "v"]}

Init == Startup(InitialDisk) /\ faultsLeft = 0

\* one POST /api/anime in flight at a time (SpecAnime has them concurrent)
DoPostAnimeBegin ==
    pending = <<>> /\ \E id \in AnimeIds \cup {NoId} : PostAnimeBegin(id, FALSE)
DoPostAnimeEnd == \E i \in DOMAIN pending, p \in ProviderOutcomes : PostAnimeEnd(i, p)
DoPostEpisode == \E body \in EpisodeBodies : PostEpisode(body)
DoPutEpisode == \E id \in EpisodeIds, patch \in EpisodePatches : PutEpisode(id, patch)
DoDeleteAnime == \E id \in AnimeIds : DeleteAnime(id)
DoDeleteEpisode == \E id \in EpisodeIds : DeleteEpisode(id)

Next ==
    \/ Tick
    \/ DoPostAnimeBegin
    \/ DoPostAnimeEnd
    \/ DoPostEpisode
    \/ DoPutEpisode
    \/ DoDeleteAnime
    \/ DoDeleteEpisode

Spec == Init /\ [][Next]_vars

(***************************************************************************)
(* SpecAnime: POST /api/anime requests suspended at the provider at the    *)
(* same time, with I/O errors.                                             *)
(***************************************************************************)
AnimeInit == Startup(InitialDisk) /\ faultsLeft = MaxFaults

AnimePostBegin == \E id \in AnimeIds \cup {NoId} : PostAnimeBegin(id, FALSE)
AnimePostEnd == \E i \in DOMAIN pending, p \in ProviderOutcomes : PostAnimeEnd(i, p)
AnimePutTagalog == \E id \in AnimeIds : PutAnimeTagalog(id, TRUE)
AnimeDelete == \E id \in AnimeIds : DeleteAnime(id)

AnimeNext ==
    \/ AnimePostBegin
    \/ AnimePostEnd
    \/ AnimePutTagalog
    \/ AnimeDelete

SpecAnime == AnimeInit /\ [][AnimeNext]_vars

(***************************************************************************)
(* SpecAdd: POST /api/anime of revision 1 with every provider outcome,     *)
(* requests suspended at the provider at the same time, from an empty      *)
(* library, without I/O errors.                                            *)
(***************************************************************************)
AddInit == Startup(InitialDisk) /\ faultsLeft = 0

AddBegin == \E id \in AnimeIds \cup {NoId}, dub \in BOOLEAN : PostAnimeBegin(id, dub)
AddEnd == \E i \in DOMAIN pending, p \in ProviderOutcomes : PostAnimeEnd(i, p)
AddDelete == \E id \in AnimeIds : DeleteAnime(id)

AddNext ==
    \/ AddBegin
    \/ AddEnd
    \/ AddDelete

SpecAdd == AddInit /\ [][AddNext]_vars

(***************************************************************************)
(* SpecFaults: episode and anime writes of revision 1 with I/O errors, the *)
(* server started on a data directory that tracks anime 1.                 *)
(***************************************************************************)
DiskWith(anime) == [InitialDisk EXCEPT ![Path(CUSTOM_ANIME_FILE)] = Json(anime)]

FaultsInit ==
    /\ Startup(DiskWith(<<[id |-> 1, hasTagalogDub |-> FALSE]>>))
    /\ faultsLeft = MaxFaults

FaultsPostEpisode ==
    \E dub \in BOOLEAN :
        PostEpisode([animeId |-> 1, number |-> Undefined, iframeSrc |-> "u",
                     hasTagalogDub |-> dub])
FaultsDeleteEpisode == \E id \in EpisodeIds : DeleteEpisode(id)
FaultsPutTagalog == PutAnimeTagalog(1, FALSE)
FaultsDeleteAnime == DeleteAnime(1)
FaultsSync == SyncToDisk

FaultsNext ==
    \/ Tick
    \/ FaultsPostEpisode
    \/ FaultsDeleteEpisode
    \/ FaultsPutTagalog
    \/ FaultsDeleteAnime
    \/ FaultsSync

SpecFaults == FaultsInit /\ [][FaultsNext]_vars

(***************************************************************************)
(* SpecSyncLive: episode insertion and removal and the sync timer of       *)
(* revision 1 with I/O errors, the server started on a data directory that *)
(* tracks anime 1.  setInterval fires the sync every five minutes for as   *)
(* long as the process runs: the sync is weakly fair.  Requests are not.   *)
(***************************************************************************)
InSync ==
    /\ disk[Path(CUSTOM_ANIME_FILE)] = Json(customAnimeList)
    /\ disk[Path(EPISODES_FILE)] = Json(episodes)
    /\ disk[Path(SCHEDULED_ANIME_FILE)] = Json(scheduledAnime)

SyncLivePost ==
    PostEpisode([animeId |-> 1, number |-> Undefined, iframeSrc |-> "u",
                 hasTagalogDub |-> FALSE])

SyncLiveNext ==
    \/ SyncLivePost
    \/ FaultsDeleteEpisode
    \/ FaultsSync

\* The sync is the one step that leaves no response behind.
SpecSyncLive ==
    FaultsInit /\ [][SyncLiveNext]_vars /\ WF_vars(res' = NoRes /\ SyncToDisk)

(***************************************************************************)
(* SpecRemove: removal of an anime in revision 1 with I/O errors, the      *)
(* server started on a data directory that tracks anime 1.                 *)
(***************************************************************************)
RemoveInit ==
    /\ Startup(DiskWith(<<[id |-> 1, hasTagalogDub |-> FALSE]>>))
    /\ faultsLeft = MaxFaults

RemovePostEpisode ==
    PostEpisode([animeId |-> 1, number |-> Undefined, iframeSrc |-> "u",
                 hasTagalogDub |-> FALSE])
RemovePostScheduledBegin ==
    pending = <<>> /\ PostScheduledBegin(1, Num(DateFuture), FALSE)
RemovePostScheduledEnd == \E i \in DOMAIN pending : PostScheduledEnd(i, "ok")
RemoveDeleteAnime == \E id \in AnimeIds : DeleteAnime(id)

RemoveNext ==
    \/ RemovePostEpisode
    \/ RemovePostScheduledBegin
    \/ RemovePostScheduledEnd
    \/ RemoveDeleteAnime

SpecRemove == RemoveInit /\ [][RemoveNext]_vars

(***************************************************************************)
(* SpecEpisodes: adding and deleting episodes in revision 1, the server    *)
(* started on a data directory that tracks anime 1 (and not anime 2),      *)
(* without I/O errors.  An iframeSrc of "" is what the handler stores for  *)
(* a request without the field (`req.body.iframeSrc || ""`).               *)
(***************************************************************************)
EpisodesBodies ==
    [animeId : AnimeIds, number : {Undefined, Num(1), Str}, iframeSrc : {"u", ""},
     hasTagalogDub : {FALSE}]

EpisodesInit ==
    /\ Startup(DiskWith(<<[id |-> 1, hasTagalogDub |-> FALSE]>>))
    /\ faultsLeft = 0

EpisodesPost == \E body \in EpisodesBodies : PostEpisode(body)
EpisodesDelete == \E id \in EpisodeIds : DeleteEpisode(id)

EpisodesNext ==
    \/ Tick
    \/ EpisodesPost
    \/ EpisodesDelete

SpecEpisodes == EpisodesInit /\ [][EpisodesNext]_vars

(***************************************************************************)
(* SpecList: the GET handlers of revision 1 and the dub flag, the server   *)
(* started on a data directory that tracks anime 1 and 2, without I/O      *)
(* errors.  The provider answers each call or fails it.                    *)
(***************************************************************************)
ListInit ==
    /\ Startup(DiskWith(<<[id |-> 1, hasTagalogDub |-> FALSE],
                          [id |-> 2, hasTagalogDub |-> FALSE]>>))
    /\ faultsLeft = 0

ListDoBegin == ListAnimeBegin
ListDoResume ==
    \E i \in DOMAIN pending, p \in {"ok", "apiError", "networkError"} :
        ListAnimeResume(i, p)
ListGetBegin == \E id \in AnimeIds : GetAnimeBegin(id)
ListGetEnd ==
    \E i \in DOMAIN pending, p \in {"ok", "apiError", "networkError"} :
        GetAnimeEnd(i, p)
ListPutTagalog == PutAnimeTagalog(1, TRUE)

ListNext ==
    \/ Tick
    \/ ListDoBegin
    \/ ListDoResume
    \/ ListGetBegin
    \/ ListGetEnd
    \/ ListPutTagalog

SpecList == ListInit /\ [][ListNext]_vars

\* SpecList with time passing.  Nothing in the source bounds the provider
\* call (no timeout option, no timer), so no step of a suspended handler is
\* taken unless the provider answers, and the provider need not answer.
SpecListLive == ListInit /\ [][ListNext]_vars /\ WF_vars(Tick)

(***************************************************************************)
(* SpecDub: the dub flag of revision 1 in the anime collection and in the  *)
(* cache, with I/O errors, the server started on a data directory that     *)
(* tracks anime 1.                                                         *)
(***************************************************************************)
DubInit ==
    /\ Startup(DiskWith(<<[id |-> 1, hasTagalogDub |-> FALSE]>>))
    /\ faultsLeft = MaxFaults

DubListBegin == ListAnimeBegin
DubListResume ==
    \E i \in DOMAIN pending, p \in {"ok", "apiError"} : ListAnimeResume(i, p)
DubGetBegin == GetAnimeBegin(1)
DubGetEnd == \E i \in DOMAIN pending, p \in {"ok", "apiError"} : GetAnimeEnd(i, p)
DubPutTagalog == \E b \in BOOLEAN : PutAnimeTagalog(1, b)
DubPostEpisode ==
    PostEpisode([animeId |-> 1, number |-> Undefined, iframeSrc |-> "u",
                 hasTagalogDub |-> TRUE])

DubNext ==
    \/ DubListBegin
    \/ DubListResume
    \/ DubGetBegin
    \/ DubGetEnd
    \/ DubPutTagalog
    \/ DubPostEpisode

SpecDub == DubInit /\ [][DubNext]_vars

(***************************************************************************)
(* SpecSchedule: the scheduled collection and episode release dates of     *)
(* revision 1, the server started on a data directory that tracks anime 1. *)
(***************************************************************************)
ReleasePatches ==
    {[releaseDate |-> Num(DateFuture)], [releaseDate |-> Num(DatePast)],
     [releaseDate |-> Null]}

ScheduleInit ==
    /\ Startup(DiskWith(<<[id |-> 1, hasTagalogDub |-> FALSE]>>))
    /\ faultsLeft = 0

SchedulePostEpisode ==
    PostEpisode([animeId |-> 1, number |-> Undefined, iframeSrc |-> "u",
                 hasTagalogDub |-> FALSE])
SchedulePutEpisode == \E id \in EpisodeIds, patch \in ReleasePatches : PutEpisode(id, patch)
SchedulePostBegin ==
    \E id \in {1, NoId}, date \in {Null, Str, Num(DateFuture)} :
        PostScheduledBegin(id, date, FALSE)
SchedulePostEnd == \E i \in DOMAIN pending, p \in ProviderOutcomes : PostScheduledEnd(i, p)
SchedulePut ==
    \E id \in EpisodeIds, patch \in {[releaseDate |-> Num(DatePast)], [releaseDate |-> Str]} :
        PutScheduled(id, patch)
ScheduleDelete == \E id \in EpisodeIds : DeleteScheduled(id)
ScheduleDeleteAnime == DeleteAnime(1)

ScheduleNext ==
    \/ Tick
    \/ SchedulePostEpisode
    \/ SchedulePutEpisode
    \/ SchedulePostBegin
    \/ SchedulePostEnd
    \/ SchedulePut
    \/ ScheduleDelete
    \/ ScheduleDeleteAnime

SpecSchedule == ScheduleInit /\ [][ScheduleNext]_vars

(***************************************************************************)
(* SpecRoundTrip: export and import of revision 1, the server started on a *)
(* data directory that tracks anime 1.                                     *)
(***************************************************************************)
ImportBodies ==
    {[exported |-> FALSE, anime |-> <<>>, episodes |-> <<>>, scheduled |-> <<>>],
     [exported |-> TRUE,
      anime |-> <<[id |-> 1, hasTagalogDub |-> FALSE],
                  [id |-> 1, hasTagalogDub |-> FALSE]>>,
      episodes |-> <<[id |-> 0, animeId |-> 2, title |-> EpisodeTitle(Num(1)),
                      number |-> Num(1), iframeSrc |-> "", hasTagalogDub |-> FALSE]>>,
      scheduled |-> <<>>]}
    \cup {[exported |-> TRUE, arrays |-> fs,
            anime |-> IF "anime" \in fs THEN <<[id |-> 2, hasTagalogDub |-> FALSE]>>
                      ELSE <<>>,
            episodes |-> <<>>, scheduled |-> <<>>] :
              fs \in (SUBSET ImportFields) \ {ImportFields}}

RoundTripInit ==
    /\ Startup(DiskWith(<<[id |-> 1, hasTagalogDub |-> FALSE]>>))
    /\ faultsLeft = 0

RoundTripPostAnimeBegin == pending = <<>> /\ PostAnimeBegin(2, FALSE)
RoundTripPostAnimeEnd == \E i \in DOMAIN pending : PostAnimeEnd(i, "ok")
RoundTripPostEpisode ==
    \E n \in {Undefined, Str} :
        PostEpisode([animeId |-> 1, number |-> n, iframeSrc |-> "u",
                     hasTagalogDub |-> FALSE])
RoundTripExport == Export
RoundTripImport == \E body \in ImportBodies \cup {exportData} : Import(body)

RoundTripNext ==
    \/ RoundTripPostAnimeBegin
    \/ RoundTripPostAnimeEnd
    \/ RoundTripPostEpisode
    \/ RoundTripExport
    \/ RoundTripImport

SpecRoundTrip == RoundTripInit /\ [][RoundTripNext]_vars

(***************************************************************************)
(* Revision 2: the episode handlers (src/server.js lines 2074-2225).       *)
(* Episodes carry a `description`; writeData is that of revision 1.        *)
(* A request field that is not given is absent from the record.            *)
(***************************************************************************)
\* `${title} description`
Description(title) == [text |-> "description", title |-> title]

\* A title given in a request.
GivenTitle == [text |-> "Given", n |-> Undefined]

\* POST /api/episodes of revision 2.
PostEpisode2(body) ==
    LET existingEpisodes == Filter(episodes, LAMBDA e : e.animeId = body.animeId)
        nextEpisodeNumber ==
            IF Truthy(body.number) THEN body.number
            ELSE IF Len(existingEpisodes) > 0
                 THEN PlusOne(MathMax([k \in DOMAIN existingEpisodes |->
                                         existingEpisodes[k].number]))
                 ELSE Num(1)
        episodeTitle == IF "title" \in DOMAIN body THEN body.title
                        ELSE EpisodeTitle(nextEpisodeNumber)
        newEpisode == [id |-> clock,
                       animeId |-> body.animeId,
                       title |-> episodeTitle,
                       number |-> nextEpisodeNumber,
                       description |-> IF "description" \in DOMAIN body
                                       THEN body.description
                                       ELSE Description(episodeTitle),
                       iframeSrc |-> body.iframeSrc,
                       hasTagalogDub |-> body.hasTagalogDub]
        eps == Append(episodes, newEpisode)
        list == SetDub(customAnimeList, body.animeId, TRUE)
    IN IF ~Some(customAnimeList, LAMBDA a : a.id = body.animeId)
       THEN /\ res' = [op |-> "postEpisode", status |-> 404]
            /\ UNCHANGED <<customAnimeList, episodes, scheduledAnime, animeCache,
                           disk, pending, clock, faultsLeft, exportData>>
       ELSE /\ Len(episodes) < MaxEpisodes
            /\ nextEpisodeNumber.v <= MaxNumber
            /\ episodes' = eps
            /\ \E o \in Write(disk, faultsLeft, EPISODES_FILE, eps) :
                 IF ~o.ok
                 THEN /\ disk' = o.d
                      /\ faultsLeft' = o.n
                      /\ res' = [op |-> "postEpisode", status |-> 500]
                      /\ UNCHANGED <<customAnimeList, animeCache>>
                 ELSE IF body.hasTagalogDub
                 THEN \E o2 \in Write(o.d, o.n, CUSTOM_ANIME_FILE, list) :
                         /\ customAnimeList' = list
                         /\ disk' = o2.d
                         /\ faultsLeft' = o2.n
                         /\ animeCache' = CacheSetDub(animeCache, body.animeId, TRUE)
                         /\ res' = [op |-> "postEpisode", status |-> 201]
                 ELSE /\ disk' = o.d
                      /\ faultsLeft' = o.n
                      /\ res' = [op |-> "postEpisode", status |-> 201]
                      /\ UNCHANGED <<customAnimeList, animeCache>>
            /\ UNCHANGED <<scheduledAnime, pending, clock, exportData>>

\* PUT /api/episodes/:id of revision 2.
PutEpisode2(episodeId, patch) ==
    LET episodeIndex == FindIndex(episodes, LAMBDA e : e.id = episodeId)
        spread == MergePatch(episodes[episodeIndex], patch, episodeId)
        \* lines 2201-2204
        merged == IF "title" \in DOMAIN patch /\ "description" \notin DOMAIN patch
                  THEN [f \in DOMAIN spread \cup {"description"} |->
                           IF f = "description" THEN Description(patch.title)
                           ELSE spread[f]]
                  ELSE spread
        eps == [episodes EXCEPT ![episodeIndex] = merged]
        \* tested after the merge, as in the source
        firstDub == /\ "hasTagalogDub" \in DOMAIN patch
                    /\ patch.hasTagalogDub = TRUE
                    /\ merged.hasTagalogDub # TRUE
        animeIndex == FindIndex(customAnimeList, LAMBDA a : a.id = merged.animeId)
        list == SetDub(customAnimeList, merged.animeId, TRUE)
    IN IF episodeIndex = 0
       THEN /\ res' = [op |-> "putEpisode", status |-> 404]
            /\ UNCHANGED <<customAnimeList, episodes, scheduledAnime, animeCache,
                           disk, pending, clock, faultsLeft, exportData>>
       ELSE /\ episodes' = eps
            /\ IF firstDub /\ animeIndex # 0
               THEN \E o1 \in Write(disk, faultsLeft, CUSTOM_ANIME_FILE, list) :
                    \E o \in Write(o1.d, o1.n, EPISODES_FILE, eps) :
                       /\ customAnimeList' = list
                       /\ animeCache' = CacheSetDub(animeCache, merged.animeId, TRUE)
                       /\ disk' = o.d
                       /\ faultsLeft' = o.n
                       /\ res' = [op |-> "putEpisode",
                                  status |-> IF o.ok THEN 200 ELSE 500]
               ELSE \E o \in Write(disk, faultsLeft, EPISODES_FILE, eps) :
                       /\ disk' = o.d
                       /\ faultsLeft' = o.n
                       /\ res' = [op |-> "putEpisode",
                                  status |-> IF o.ok THEN 200 ELSE 500]
                       /\ UNCHANGED <<customAnimeList, animeCache>>
            /\ UNCHANGED <<scheduledAnime, pending, clock, exportData>>

\* Math.random().toString(36).substr(2, 5): nothing keeps two draws apart.
RandomSuffixes == {0, 1}

\* `${Date.now()}-${suffix}`, as a number that differs from every
\* `${Date.now()}` of the single insertions (0..MaxClock).
BulkId(ms, suffix) == (MaxClock + 1) * (1 + ms * Cardinality(RandomSuffixes) + suffix)

\* The loop without `existingEpisodeNumbers.add`: numbers met earlier in the
\* batch are not remembered.
RECURSIVE BulkLoopForgetful(_, _, _, _)
BulkLoopForgetful(body, rnd, k, st) ==
    IF k > Len(body.episodes) THEN st
    ELSE LET episodeData == body.episodes[k]
         IN IF episodeData = Null THEN [st EXCEPT !.threw = TRUE]
            ELSE IF episodeData.number \in st.numbers
            THEN BulkLoopForgetful(body, rnd, k + 1, st)
            ELSE LET title == EpisodeTitle(episodeData.number)
                     newEpisode ==
                         [id |-> BulkId(clock, rnd[k]),
                          animeId |-> body.animeId,
                          title |-> title,
                          number |-> episodeData.number,
                          description |-> Description(title),
                          iframeSrc |-> episodeData.iframeSrc,
                          hasTagalogDub |-> episodeData.hasTagalogDub]
                 IN BulkLoopForgetful(body, rnd, k + 1,
                        [st EXCEPT !.eps = Append(@, newEpisode),
                                   !.added = Append(@, newEpisode)])

\* The for loop of POST /api/bulk-import from item k on.  A null item makes
\* `episodeData.number` throw: the loop is left for the outer catch.
RECURSIVE BulkLoop(_, _, _, _)
BulkLoop(body, rnd, k, st) ==
    IF k > Len(body.episodes) THEN st
    ELSE LET episodeData == body.episodes[k]
         IN IF episodeData = Null THEN [st EXCEPT !.threw = TRUE]
            ELSE IF episodeData.number \in st.numbers
            THEN BulkLoop(body, rnd, k + 1, st)
            ELSE LET title == IF "title" \in DOMAIN episodeData
                              THEN episodeData.title
                              ELSE EpisodeTitle(episodeData.number)
                     newEpisode ==
                         [id |-> BulkId(clock, rnd[k]),
                          animeId |-> body.animeId,
                          title |-> title,
                          number |-> episodeData.number,
                          description |-> IF "description" \in DOMAIN episodeData
                                          THEN episodeData.description
                                          ELSE Description(title),
                          iframeSrc |-> episodeData.iframeSrc,
                          hasTagalogDub |-> episodeData.hasTagalogDub]
                 IN BulkLoop(body, rnd, k + 1,
                        [st EXCEPT !.eps = Append(@, newEpisode),
                                   !.added = Append(@, newEpisode),
                                   !.numbers = @ \cup {episodeData.number}])

\* POST /api/bulk-import.  body.replaceExisting is never read.
BulkImport(body) ==
    LET existingEpisodes == Filter(episodes, LAMBDA e : e.animeId = body.animeId)
        start == [eps |-> episodes, added |-> <<>>,
                  numbers |-> {existingEpisodes[k].number : k \in DOMAIN existingEpisodes},
                  threw |-> FALSE]
        list == SetDub(customAnimeList, body.animeId, TRUE)
    IN IF body.animeId = NoId \/ body.episodes = <<>>
       THEN /\ res' = [op |-> "bulkImport", status |-> 400, addedEpisodes |-> <<>>]
            /\ UNCHANGED <<customAnimeList, episodes, scheduledAnime, animeCache,
                           disk, pending, clock, faultsLeft, exportData>>
       ELSE IF ~Some(customAnimeList, LAMBDA a : a.id = body.animeId)
       THEN /\ res' = [op |-> "bulkImport", status |-> 404, addedEpisodes |-> <<>>]
            /\ UNCHANGED <<customAnimeList, episodes, scheduledAnime, animeCache,
                           disk, pending, clock, faultsLeft, exportData>>
       ELSE \E rnd \in [DOMAIN body.episodes -> RandomSuffixes] :
            LET st == BulkLoop(body, rnd, 1, start)
            IN /\ Len(st.eps) <= MaxEpisodes
               /\ episodes' = st.eps
               /\ IF st.threw
                  THEN /\ res' = [op |-> "bulkImport", status |-> 500,
                                  addedEpisodes |-> <<>>]
                       /\ UNCHANGED <<customAnimeList, animeCache, disk, faultsLeft>>
                  ELSE \E o \in Write(disk, faultsLeft, EPISODES_FILE, st.eps) :
                       IF ~o.ok
                       THEN /\ disk' = o.d
                            /\ faultsLeft' = o.n
                            /\ res' = [op |-> "bulkImport", status |-> 500,
                                       addedEpisodes |-> <<>>]
                            /\ UNCHANGED <<customAnimeList, animeCache>>
                       ELSE IF Some(st.added, LAMBDA e : e.hasTagalogDub)
                       THEN \E o2 \in Write(o.d, o.n, CUSTOM_ANIME_FILE, list) :
                               /\ customAnimeList' = list
                               /\ disk' = o2.d
                               /\ faultsLeft' = o2.n
                               /\ animeCache' = CacheSetDub(animeCache, body.animeId, TRUE)
                               /\ res' = [op |-> "bulkImport", status |-> 201,
                                          addedEpisodes |-> st.added]
                       ELSE /\ disk' = o.d
                            /\ faultsLeft' = o.n
                            /\ res' = [op |-> "bulkImport", status |-> 201,
                                       addedEpisodes |-> st.added]
                            /\ UNCHANGED <<customAnimeList, animeCache>>
               /\ UNCHANGED <<scheduledAnime, pending, clock, exportData>>

(***************************************************************************)
(* SpecEpisodes2: adding and updating episodes in revision 2, the server   *)
(* started on a data directory that tracks anime 1, without I/O errors.    *)
(***************************************************************************)
Episodes2Bodies ==
    {[animeId |-> 1, number |-> n, iframeSrc |-> "u", hasTagalogDub |-> FALSE] :
        n \in {Undefined, Num(1)}}
    \cup {[animeId |-> 1, number |-> Undefined, iframeSrc |-> "u",
           hasTagalogDub |-> FALSE, title |-> GivenTitle,
           description |-> [text |-> "given", title |-> GivenTitle]]}

Episodes2Patches ==
    {[iframeSrc |-> "v"],
     [id |-> MaxClock + 1, hasTagalogDub |-> TRUE],
     [title |-> GivenTitle],
     [title |-> EpisodeTitle(Num(2)), description |-> Description(GivenTitle)]}

Episodes2Init ==
    /\ Startup(DiskWith(<<[id |-> 1, hasTagalogDub |-> FALSE]>>))
    /\ faultsLeft = 0

Episodes2Post == \E body \in Episodes2Bodies : PostEpisode2(body)
Episodes2Put ==
    \E id \in EpisodeIds, patch \in Episodes2Patches : PutEpisode2(id, patch)

Episodes2Next ==
    \/ Tick
    \/ Episodes2Post
    \/ Episodes2Put

SpecEpisodes2 == Episodes2Init /\ [][Episodes2Next]_vars

(***************************************************************************)
(* SpecBulk: single and bulk insertion of episodes in revision 2, the      *)
(* server started on a data directory that tracks anime 1 (and not anime   *)
(* 2), without I/O errors.  A batch holds one or two items; an item is an  *)
(* episode or null.                                                        *)
(***************************************************************************)
BulkItems ==
    {[number |-> Num(n), iframeSrc |-> "u", hasTagalogDub |-> FALSE] : n \in 1..2}
    \cup {Null}

BulkBodies ==
    [animeId : AnimeIds, replaceExisting : BOOLEAN,
     episodes : {<<>>} \cup {<<x>> : x \in BulkItems}
                \cup {<<x, y>> : x \in BulkItems, y \in BulkItems}]

BulkInit ==
    /\ Startup(DiskWith(<<[id |-> 1, hasTagalogDub |-> FALSE]>>))
    /\ faultsLeft = 0

BulkPost ==
    PostEpisode2([animeId |-> 1, number |-> Undefined, iframeSrc |-> "u",
                  hasTagalogDub |-> FALSE])
BulkDoImport == \E body \in BulkBodies : BulkImport(body)

BulkNext ==
    \/ Tick
    \/ BulkPost
    \/ BulkDoImport

SpecBulk == BulkInit /\ [][BulkNext]_vars

(***************************************************************************)
(* POST /api/browser-backup of revision 2.  A body is described as an      *)
(* import body is: exported = FALSE stands for a body that is no object,   *)
(* arrays names the fields that are arrays.  The three writes are          *)
(* statements of their own: each runs whatever the one before returned.    *)
(***************************************************************************)
\* dataLoaded: set by the start-up load, whose readData calls never throw.
dataLoaded == TRUE

Counts(a, e, s) == <<Len(a), Len(e), Len(s)>>

BackupRes(status, applied, backupData, counts) ==
    [op |-> "browserBackup", status |-> status, applied |-> applied,
     body |-> backupData, counts |-> counts]

\* A restore that does not look at what the server holds.
BrowserBackupAlways(backupData) ==
    /\ IF ~backupData.exported \/ ArrayFields(backupData) # ImportFields
       THEN /\ res' = BackupRes(400, FALSE, backupData, <<>>)
            /\ UNCHANGED <<customAnimeList, episodes, scheduledAnime, animeCache,
                           disk, faultsLeft>>
       ELSE /\ customAnimeList' = backupData.anime
            /\ episodes' = backupData.episodes
            /\ scheduledAnime' = backupData.scheduled
            /\ animeCache' = EmptyMap
            /\ \E o1 \in Write(disk, faultsLeft, CUSTOM_ANIME_FILE, backupData.anime) :
               \E o2 \in Write(o1.d, o1.n, EPISODES_FILE, backupData.episodes) :
               \E o3 \in Write(o2.d, o2.n, SCHEDULED_ANIME_FILE, backupData.scheduled) :
                  /\ disk' = o3.d
                  /\ faultsLeft' = o3.n
            /\ res' = BackupRes(200, TRUE, backupData,
                                Counts(backupData.anime, backupData.episodes,
                                       backupData.scheduled))
    /\ UNCHANGED <<pending, clock, exportData>>

BrowserBackup(backupData) ==
    /\ IF ~backupData.exported
       THEN /\ res' = BackupRes(400, FALSE, backupData, <<>>)
            /\ UNCHANGED <<customAnimeList, episodes, scheduledAnime, animeCache,
                           disk, faultsLeft>>
       ELSE IF ~dataLoaded \/ (Len(customAnimeList) = 0 /\ Len(episodes) = 0
                                /\ Len(scheduledAnime) = 0)
       THEN IF ArrayFields(backupData) = ImportFields
            THEN /\ customAnimeList' = backupData.anime
                 /\ episodes' = backupData.episodes
                 /\ scheduledAnime' = backupData.scheduled
                 /\ animeCache' = EmptyMap
                 /\ \E o1 \in Write(disk, faultsLeft, CUSTOM_ANIME_FILE, backupData.anime) :
                    \E o2 \in Write(o1.d, o1.n, EPISODES_FILE, backupData.episodes) :
                    \E o3 \in Write(o2.d, o2.n, SCHEDULED_ANIME_FILE,
                                    backupData.scheduled) :
                       /\ disk' = o3.d
                       /\ faultsLeft' = o3.n
                 /\ res' = BackupRes(200, TRUE, backupData,
                                     Counts(backupData.anime, backupData.episodes,
                                            backupData.scheduled))
            ELSE /\ res' = BackupRes(400, FALSE, backupData, <<>>)
                 /\ UNCHANGED <<customAnimeList, episodes, scheduledAnime, animeCache,
                                disk, faultsLeft>>
       ELSE /\ res' = BackupRes(200, FALSE, backupData,
                                Counts(customAnimeList, episodes, scheduledAnime))
            /\ UNCHANGED <<customAnimeList, episodes, scheduledAnime, animeCache,
                           disk, faultsLeft>>
    /\ UNCHANGED <<pending, clock, exportData>>

(***************************************************************************)
(* SpecBackup: the browser-backup restore of revision 2 on a server        *)
(* started on an empty data directory, with anime lookups that fill the    *)
(* cache and removal of anime, without I/O errors.                         *)
(***************************************************************************)
BackupBodies ==
    {[exported |-> FALSE]}
    \cup {[exported |-> TRUE, arrays |-> fs,
           anime |-> IF "anime" \in fs THEN a ELSE <<>>,
           episodes |-> IF "episodes" \in fs THEN e ELSE <<>>,
           scheduled |-> <<>>] :
             fs \in SUBSET ImportFields,
             a \in {<<>>, <<[id |-> 1, hasTagalogDub |-> FALSE]>>},
             e \in {<<>>, <<[id |-> 7, animeId |-> 2, number |-> Num(1),
                            title |-> "t", iframeSrc |-> "u",
                            hasTagalogDub |-> FALSE, description |-> "",
                            dateAdded |-> 0]>>}}

BackupInit == Startup(InitialDisk) /\ faultsLeft = 0

BackupRestore == \E body \in BackupBodies : BrowserBackup(body)
BackupGetBegin == pending = <<>> /\ \E id \in AnimeIds : GetAnimeBegin(id)
BackupGetEnd == \E i \in DOMAIN pending, p \in ProviderOutcomes : GetAnimeEnd(i, p)
BackupDelete == \E id \in AnimeIds : DeleteAnime(id)

BackupNext ==
    \/ BackupRestore
    \/ BackupGetBegin
    \/ BackupGetEnd
    \/ BackupDelete

SpecBackup == BackupInit /\ [][BackupNext]_vars

(***************************************************************************)
(* Revision 3: the file-backed server (src/server.js lines 2650-3618).     *)
(* Every handler reads the JSON files; writeData writes the file in place. *)
(* One clock tick is one day.                                              *)
(***************************************************************************)
\* writeData(filePath, data) of revision 3: [ok, d].
writeDataFB(d, f, data, canFail) ==
    {[ok |-> o.threw = FALSE, d |-> o.d] : o \in writeFileSync(d, Path(f), data, canFail)}

WriteFB(d, n, f, data) ==
    {[ok |-> o.ok, d |-> o.d, n |-> IF o.ok THEN n ELSE n - 1] :
        o \in writeDataFB(d, f, data, n > 0)}

\* POST /api/anime up to the provider call: the anime list is read here.
FBPostAnimeBegin(anilistId) ==
    LET list == readData(disk, CUSTOM_ANIME_FILE)
    IN /\ IF anilistId = NoId
          THEN /\ res' = [op |-> "postAnime", status |-> 400]
               /\ UNCHANGED pending
          ELSE /\ Len(pending) < MaxPending
               /\ pending' = Append(pending,
                      [op |-> IF Some(list, LAMBDA a : a.id = anilistId)
                              THEN "refreshAnime" ELSE "postAnime",
                       anilistId |-> anilistId, date |-> Null, list |-> list])
               /\ res' = NoRes
       /\ UNCHANGED <<customAnimeList, episodes, scheduledAnime, animeCache, disk,
                      clock, faultsLeft, exportData>>

\* POST /api/anime for an id already in the library, from the provider's answer on.
FBRefreshAnimeEnd(i, provider) ==
    LET rq == pending[i]
    IN /\ rq.op = "refreshAnime"
       /\ pending' = Splice(pending, i)
       /\ IF provider = "ok"
          THEN /\ animeCache' = MapSet(animeCache, rq.anilistId, formatAnimeData(rq.anilistId))
               /\ res' = [op |-> "postAnime", status |-> 200]
          ELSE /\ UNCHANGED animeCache
               /\ res' = [op |-> "postAnime",
                          status |-> IF rq.anilistId \in DOMAIN animeCache THEN 200 ELSE 400]
       /\ UNCHANGED <<customAnimeList, episodes, scheduledAnime, disk, clock,
                      faultsLeft, exportData>>

\* POST /api/anime for a new id, from the provider's answer on: the list
\* read before the call is extended and written.
FBPostAnimeEnd(i, provider) ==
    LET rq == pending[i]
        list == Append(rq.list, [id |-> rq.anilistId])
    IN /\ rq.op = "postAnime"
       /\ pending' = Splice(pending, i)
       /\ IF provider # "ok"
          THEN /\ res' = [op |-> "postAnime", status |-> 400]
               /\ UNCHANGED <<animeCache, disk, faultsLeft>>
          ELSE /\ Len(rq.list) < MaxAnime
               /\ \E o \in WriteFB(disk, faultsLeft, CUSTOM_ANIME_FILE, list) :
                    /\ disk' = o.d
                    /\ faultsLeft' = o.n
                    /\ animeCache' = IF o.ok
                                     THEN MapSet(animeCache, rq.anilistId,
                                                 formatAnimeData(rq.anilistId))
                                     ELSE animeCache
                    /\ res' = [op |-> "postAnime", status |-> IF o.ok THEN 201 ELSE 500]
       /\ UNCHANGED <<customAnimeList, episodes, scheduledAnime, clock, exportData>>

\* DELETE /api/anime/:id.
FBDeleteAnime(animeId) ==
    LET list == Filter(readData(disk, CUSTOM_ANIME_FILE), LAMBDA a : a.id # animeId)
        eps == Filter(readData(disk, EPISODES_FILE), LAMBDA e : e.animeId # animeId)
    IN /\ animeCache' = MapDelete(animeCache, animeId)
       /\ \E o \in WriteFB(disk, faultsLeft, CUSTOM_ANIME_FILE, list) :
            IF o.ok
            THEN \E o2 \in WriteFB(o.d, o.n, EPISODES_FILE, eps) :
                    /\ disk' = o2.d
                    /\ faultsLeft' = o2.n
                    /\ res' = [op |-> "deleteAnime", status |-> IF o2.ok THEN 200 ELSE 500,
                               id |-> animeId]
            ELSE /\ disk' = o.d
                 /\ faultsLeft' = o.n
                 /\ res' = [op |-> "deleteAnime", status |-> 500, id |-> animeId]
       /\ UNCHANGED <<customAnimeList, episodes, scheduledAnime, pending, clock,
                      exportData>>

\* POST /api/scheduled up to the provider call.
FBPostScheduledBegin(anilistId, scheduledDate) ==
    /\ IF anilistId = NoId \/ scheduledDate.t = "null" \/ scheduledDate.t = "string"
       THEN /\ res' = [op |-> "postScheduled", status |-> 400]
            /\ UNCHANGED pending
       ELSE /\ Len(pending) < MaxPending
            /\ pending' = Append(pending, [op |-> "postScheduled", anilistId |-> anilistId,
                                            date |-> scheduledDate, list |-> <<>>])
            /\ res' = NoRes
    /\ UNCHANGED <<customAnimeList, episodes, scheduledAnime, animeCache, disk,
                   clock, faultsLeft, exportData>>

\* POST /api/scheduled from the provider's answer on: update the entry of
\* the anime in place, or add one.
FBPostScheduledEnd(i, provider) ==
    LET rq == pending[i]
        sched == readData(disk, SCHEDULED_ANIME_FILE)
        index == FindIndex(sched, LAMBDA a : a.anilistId = rq.anilistId)
        newScheduledEntry == [id |-> IF index # 0 THEN sched[index].id ELSE clock,
                              anilistId |-> rq.anilistId,
                              scheduledDate |-> rq.date]
        list == IF index # 0 THEN [sched EXCEPT ![index] = newScheduledEntry]
                ELSE Append(sched, newScheduledEntry)
    IN /\ rq.op = "postScheduled"
       /\ pending' = Splice(pending, i)
       /\ IF provider # "ok"
          THEN /\ res' = [op |-> "postScheduled", status |-> 400]
               /\ UNCHANGED <<disk, faultsLeft>>
          ELSE /\ Len(list) <= MaxScheduled
               /\ \E o \in WriteFB(disk, faultsLeft, SCHEDULED_ANIME_FILE, list) :
                    /\ disk' = o.d
                    /\ faultsLeft' = o.n
                    /\ res' = [op |-> "postScheduled",
                               status |-> IF o.ok THEN 201 ELSE 500]
       /\ UNCHANGED <<customAnimeList, episodes, scheduledAnime, animeCache, clock,
                      exportData>>

\* DELETE /api/scheduled/:id.
FBDeleteScheduled(scheduledId) ==
    LET sched == readData(disk, SCHEDULED_ANIME_FILE)
        scheduledIndex == FindIndex(sched, LAMBDA a : a.id = scheduledId)
    IN /\ IF scheduledIndex = 0
          THEN /\ res' = [op |-> "deleteScheduled", status |-> 404]
               /\ UNCHANGED <<disk, faultsLeft>>
          ELSE \E o \in WriteFB(disk, faultsLeft, SCHEDULED_ANIME_FILE,
                                Splice(sched, scheduledIndex)) :
                    /\ disk' = o.d
                    /\ faultsLeft' = o.n
                    /\ res' = [op |-> "deleteScheduled",
                               status |-> IF o.ok THEN 200 ELSE 500]
       /\ UNCHANGED <<customAnimeList, episodes, scheduledAnime, animeCache, pending,
                      clock, exportData>>

\* The activation loop without its `some` test.
RECURSIVE activateUnchecked(_, _)
activateUnchecked(list, toActivate) ==
    IF toActivate = <<>> THEN list
    ELSE activateUnchecked(Append(list, [id |-> toActivate[1].anilistId]),
                           Tail(toActivate))

\* checkScheduledAnime(): anime scheduled for today join the library.
RECURSIVE activate(_, _)
activate(list, toActivate) ==
    IF toActivate = <<>> THEN list
    ELSE activate(IF ~Some(list, LAMBDA a : a.id = toActivate[1].anilistId)
                  THEN Append(list, [id |-> toActivate[1].anilistId])
                  ELSE list,
                  Tail(toActivate))

checkScheduledAnime ==
    LET toActivate == Filter(readData(disk, SCHEDULED_ANIME_FILE),
                             LAMBDA a : a.scheduledDate.v = clock)
        old == readData(disk, CUSTOM_ANIME_FILE)
        list == activate(old, toActivate)
    IN /\ Len(list) <= MaxAnime
       /\ IF list # old
          THEN \E o \in WriteFB(disk, faultsLeft, CUSTOM_ANIME_FILE, list) :
                  disk' = o.d /\ faultsLeft' = o.n
          ELSE UNCHANGED <<disk, faultsLeft>>
       /\ res' = NoRes
       /\ UNCHANGED <<customAnimeList, episodes, scheduledAnime, animeCache, pending,
                      clock, exportData>>

(***************************************************************************)
(* SpecFB: revision 3 started on a data directory that tracks anime 1 with *)
(* one episode (revision 3 itself has no endpoint that adds episodes),     *)
(* without I/O errors.                                                     *)
(***************************************************************************)
FBDisk ==
    [InitialDisk EXCEPT
        ![Path(CUSTOM_ANIME_FILE)] = Json(<<[id |-> 1]>>),
        ![Path(EPISODES_FILE)] =
            Json(<<[id |-> 0, animeId |-> 1, title |-> EpisodeTitle(Num(1)),
                    number |-> Num(1), iframeSrc |-> "u", hasTagalogDub |-> FALSE]>>)]

\* revision 3 keeps no collection in memory
FBInit ==
    /\ disk = FBDisk
    /\ customAnimeList = <<>>
    /\ episodes = <<>>
    /\ scheduledAnime = <<>>
    /\ animeCache = EmptyMap
    /\ pending = <<>>
    /\ clock = 0
    /\ faultsLeft = 0
    /\ exportData = NoExport
    /\ res = NoRes

FBDoPostAnimeBegin ==
    /\ \A i \in DOMAIN pending : pending[i].op # "postScheduled"
    /\ \E id \in AnimeIds \cup {NoId} : FBPostAnimeBegin(id)
FBDoRefreshAnimeEnd == \E i \in DOMAIN pending, p \in {"ok", "apiError"} : FBRefreshAnimeEnd(i, p)
FBDoPostAnimeEnd == \E i \in DOMAIN pending, p \in {"ok", "apiError"} : FBPostAnimeEnd(i, p)
FBDoDeleteAnime == \E id \in AnimeIds : FBDeleteAnime(id)
FBDoPostScheduledBegin ==
    /\ pending = <<>>
    /\ \E id \in AnimeIds \cup {NoId}, date \in {Null, Num(MaxClock)} :
            FBPostScheduledBegin(id, date)
FBDoPostScheduledEnd ==
    \E i \in DOMAIN pending, p \in {"ok", "apiError"} : FBPostScheduledEnd(i, p)
FBDoDeleteScheduled == \E id \in EpisodeIds : FBDeleteScheduled(id)
FBDoCheckScheduled == checkScheduledAnime

FBNext ==
    \/ Tick
    \/ FBDoPostAnimeBegin
    \/ FBDoRefreshAnimeEnd
    \/ FBDoPostAnimeEnd
    \/ FBDoDeleteAnime
    \/ FBDoPostScheduledBegin
    \/ FBDoPostScheduledEnd
    \/ FBDoDeleteScheduled
    \/ FBDoCheckScheduled

SpecFB == FBInit /\ [][FBNext]_vars

(***************************************************************************)
(* SpecFBCheck: the daily schedule check of revision 3 on a data directory *)
(* that tracks anime 1, with scheduling and removal of anime, without I/O  *)
(* errors.  Only the check adds anime here.                                *)
(***************************************************************************)
DueToday(d, day) ==
    Filter(readData(d, SCHEDULED_ANIME_FILE), LAMBDA a : a.scheduledDate.v = day)

FBCheckNext ==
    \/ Tick
    \/ FBDoPostScheduledBegin
    \/ FBDoPostScheduledEnd
    \/ FBDoDeleteAnime
    \/ FBDoCheckScheduled

SpecFBCheck == FBInit /\ [][FBCheckNext]_vars

(***************************************************************************)
(* SpecFBAnime: POST /api/anime requests of revision 3 suspended at the    *)
(* provider at the same time, from an empty library, without I/O errors.   *)
(* Nothing else writes the anime file.                                     *)
(***************************************************************************)
FBAnimeInit ==
    /\ disk = InitialDisk
    /\ customAnimeList = <<>>
    /\ episodes = <<>>
    /\ scheduledAnime = <<>>
    /\ animeCache = EmptyMap
    /\ pending = <<>>
    /\ clock = 0
    /\ faultsLeft = 0
    /\ exportData = NoExport
    /\ res = NoRes

FBAnimeBegin == \E id \in AnimeIds : FBPostAnimeBegin(id)

FBAnimeNext ==
    \/ Tick
    \/ FBAnimeBegin
    \/ FBDoRefreshAnimeEnd
    \/ FBDoPostAnimeEnd

SpecFBAnime == FBAnimeInit /\ [][FBAnimeNext]_vars

(***************************************************************************)
(* SpecStore: writeData and readData of revision 1 called on one file.      *)
(***************************************************************************)
StoreFile == EPISODES_FILE
StoreData == {<<>>, <<[id |-> 1]>>, <<[id |-> 2]>>, <<[id |-> 1], [id |-> 2]>>}

StoreInit == Startup(InitialDisk) /\ faultsLeft = 0

StoreWrite ==
    /\ \E data \in StoreData :
         \E o \in writeData(disk, StoreFile, data, TRUE) :
            /\ disk' = o.d
            /\ res' = [op |-> "writeData", status |-> IF o.ok THEN 1 ELSE 0,
                       threw |-> o.threw, data |-> data]
    /\ UNCHANGED <<customAnimeList, episodes, scheduledAnime, animeCache,
                   pending, clock, faultsLeft, exportData>>

StoreRead ==
    /\ res' = [op |-> "readData", status |-> 1, threw |-> FALSE,
               data |-> readData(disk, StoreFile)]
    /\ UNCHANGED <<customAnimeList, episodes, scheduledAnime, animeCache, disk,
                   pending, clock, faultsLeft, exportData>>

StoreNext ==
    \/ StoreWrite
    \/ StoreRead

SpecStore == StoreInit /\ [][StoreNext]_vars

(***************************************************************************)
(* Properties of the library, episode and schedule collections.            *)
(***************************************************************************)
\* C1: after any sequence of POST /api/anime requests, including requests
\* suspended at the provider call at the same time, no two entries of the
\* anime collection have the same id.
C1_AnimeIdsUnique ==
    \A i, j \in DOMAIN customAnimeList :
        customAnimeList[i].id = customAnimeList[j].id => i = j

\* C2: once DELETE /api/anime/:id has answered with success, no stored
\* episode and no stored scheduled entry references the id.
C2_RemoveAnimeCascades ==
    (res.op = "deleteAnime" /\ res.status = 200)
        => /\ ~Some(readData(disk, EPISODES_FILE), LAMBDA e : e.animeId = res.id)
           /\ ~Some(readData(disk, SCHEDULED_ANIME_FILE), LAMBDA a : a.anilistId = res.id)

\* C3: every episode's animeId is the id of an anime in the anime collection.
C3_EpisodesReferenceAnime ==
    \A i \in DOMAIN episodes :
        Some(customAnimeList, LAMBDA a : a.id = episodes[i].animeId)

\* C4: POST /api/episodes never stores an episode whose number an episode
\* of the same anime already has, so numbers stay unique per anime.
C4_DuplicateNumberRejected ==
    [][(res'.op = "postEpisode" /\ res'.status = 201)
         => ~Some(episodes,
                  LAMBDA e : /\ e.animeId = episodes'[Len(episodes')].animeId
                             /\ e.number = episodes'[Len(episodes')].number)]_vars

\* C5: a writeData call that returns false leaves the target file's content
\* as it was before the call.
C5_FailedSaveKeepsTarget ==
    [][(res'.op = "writeData" /\ res'.status = 0)
         => disk'[Path(StoreFile)] = disk[Path(StoreFile)]]_vars

\* scheduled entries of type "episode" kept for an episode
EpisodeReleases(e) ==
    {i \in DOMAIN scheduledAnime :
        /\ "type" \in DOMAIN scheduledAnime[i]
        /\ scheduledAnime[i].type = "episode"
        /\ scheduledAnime[i].id = e.id}

\* the episode carries a release date that is today or later
FutureRelease(e) ==
    /\ "releaseDate" \in DOMAIN e
    /\ e.releaseDate.t = "number"
    /\ e.releaseDate.v >= clock

\* C6: an episode with a release date of today or later has exactly one
\* scheduled entry of type "episode"; any other episode has none.
C6_OneReleasePerFutureEpisode ==
    \A i \in DOMAIN episodes :
        Cardinality(EpisodeReleases(episodes[i]))
            = IF FutureRelease(episodes[i]) THEN 1 ELSE 0

\* C7: the scheduled collection never holds two entries made by
\* POST /api/scheduled for the same anime id.
C7_OneScheduledPerAnime ==
    \A i, j \in DOMAIN scheduledAnime :
        scheduledAnime[i].animeId = scheduledAnime[j].animeId => i = j

\* the collection stored in a file
Collection(f) ==
    CASE f = CUSTOM_ANIME_FILE -> customAnimeList
      [] f = EPISODES_FILE -> episodes
      [] f = SCHEDULED_ANIME_FILE -> scheduledAnime

\* C8: a request that changes collections answers with success only if
\* every collection it changed has been written to its file.
C8_SuccessMeansAllWritten ==
    [][(res'.status = 200 \/ res'.status = 201)
         => \A f \in Files :
               Collection(f)' # Collection(f) => disk'[Path(f)] = Json(Collection(f)')]_vars

\* the two collections hold the same records, in any order
SameRecords(xs, ys) ==
    /\ Len(xs) = Len(ys)
    /\ \A i \in DOMAIN xs :
          Cardinality({j \in DOMAIN xs : xs[j] = xs[i]})
              = Cardinality({j \in DOMAIN ys : ys[j] = xs[i]})

\* C9: importing what GET /api/export returns leaves the three collections
\* with the records they had and the metadata cache empty.
C9_ExportImportRoundTrip ==
    [][(res'.op = "import" /\ res'.status = 200 /\ res'.body = ExportBody)
         => /\ SameRecords(customAnimeList', customAnimeList)
            /\ SameRecords(episodes', episodes)
            /\ SameRecords(scheduledAnime', scheduledAnime)
            /\ animeCache' = EmptyMap]_vars

\* C10: an accepted import makes the three collections exactly the arrays of
\* the request body, whatever they contain, and leaves the cache empty.
C10_ImportReplacesWholesale ==
    [][(res'.op = "import" /\ res'.status # 400)
         => /\ customAnimeList' = res'.body.anime
            /\ episodes' = res'.body.episodes
            /\ scheduledAnime' = res'.body.scheduled
            /\ animeCache' = EmptyMap]_vars

\* an import of a body with a repeated anime id and an episode of an
\* untracked anime has been accepted
C10_Witness ==
    /\ res.op = "import"
    /\ res.status = 200
    /\ customAnimeList = res.body.anime
    /\ episodes = res.body.episodes
    /\ \E i, j \in DOMAIN customAnimeList :
          i # j /\ customAnimeList[i].id = customAnimeList[j].id
    /\ \E i \in DOMAIN episodes :
          ~Some(customAnimeList, LAMBDA a : a.id = episodes[i].animeId)
    /\ animeCache = EmptyMap

(***************************************************************************)
(* Properties of single requests: what a handler answers and what it      *)
(* changes.                                                                *)
(***************************************************************************)
\* C11: a POST /api/anime for an id that is already in the library is
\* answered with an error and leaves the anime collection as it was.
C11_SecondAddRejected ==
    [][\A i \in DOMAIN pending, p \in {"ok", "apiError"} :
          FBRefreshAnimeEnd(i, p)
              => /\ res'.status >= 400
                 /\ readData(disk, CUSTOM_ANIME_FILE)' = readData(disk, CUSTOM_ANIME_FILE)]_vars

\* C12: DELETE /api/anime/:id for an id that is not in the anime collection
\* answers not-found and leaves the three collections as they were.
C12_RemoveAbsentIsNotFound ==
    [][(res'.op = "deleteAnime" /\ ~Some(customAnimeList, LAMBDA a : a.id = res'.id))
          => /\ res'.status = 404
             /\ UNCHANGED <<customAnimeList, episodes, scheduledAnime>>]_vars

\* C13: a successful DELETE /api/anime/:id reports the number of episodes
\* that referenced the anime just before the request.
C13_RemoveReportsEpisodeCount ==
    [][(res'.op = "deleteAnime" /\ res'.status = 200)
          => /\ "removedEpisodeCount" \in DOMAIN res'
             /\ res'.removedEpisodeCount
                    = Len(Filter(episodes, LAMBDA e : e.animeId = res'.id))]_vars

\* C14: when a write fails during DELETE /api/anime/:id the request is
\* answered with a failure, and the anime, its episodes and its scheduled
\* entries are gone from the in-memory collections all the same.
C14_FailedRemoveNotRolledBack ==
    [][(res'.op = "deleteAnime" /\ faultsLeft' < faultsLeft)
          => /\ res'.status = 500
             /\ ~Some(customAnimeList', LAMBDA a : a.id = res'.id)
             /\ ~Some(episodes', LAMBDA e : e.animeId = res'.id)
             /\ ~Some(scheduledAnime', LAMBDA x : x.animeId = res'.id)]_vars

\* a removal of anime 1 has failed: memory holds nothing of it, while the
\* anime file still lists it and an episode and a scheduled entry were its
C14_Witness ==
    /\ res.op = "deleteAnime"
    /\ res.status = 500
    /\ res.id = 1
    /\ Some(readData(disk, CUSTOM_ANIME_FILE), LAMBDA a : a.id = 1)
    /\ Some(readData(disk, EPISODES_FILE), LAMBDA e : e.animeId = 1)
    /\ Some(readData(disk, SCHEDULED_ANIME_FILE), LAMBDA x : x.animeId = 1)
    /\ ~Some(customAnimeList, LAMBDA a : a.id = 1)
    /\ ~Some(episodes, LAMBDA e : e.animeId = 1)
    /\ ~Some(scheduledAnime, LAMBDA x : x.animeId = 1)

\* C15: POST /api/episodes without a number stores an episode whose number
\* is 1 when the anime has no episode, and otherwise one more than the
\* largest number of the anime's episodes; it is never a number that an
\* episode of the anime already has.
C15_AutoNumberIsMaxPlusOne ==
    [][\A body \in EpisodesBodies :
          (res'.op = "postEpisode" /\ res'.status = 201 /\ body.number = Undefined
             /\ PostEpisode(body))
              => LET new == episodes'[Len(episodes')].number
                     existing == {episodes[i].number :
                                    i \in {j \in DOMAIN episodes :
                                             episodes[j].animeId = body.animeId}}
                 IN /\ new.t = "number"
                    /\ new \notin existing
                    /\ IF existing = {} THEN new.v = 1
                       ELSE /\ \A n \in existing : n.t = "number" => n.v < new.v
                            /\ \E n \in existing : n.t = "number" /\ n.v + 1 = new.v]_vars

\* C16: POST /api/episodes for an animeId that is not in the anime collection
\* answers not-found and leaves the episode collection and its file as
\* they were.
C16_EpisodeOfUnknownAnimeRejected ==
    [][\A body \in EpisodesBodies :
          (res'.op = "postEpisode"
             /\ ~Some(customAnimeList, LAMBDA a : a.id = body.animeId)
             /\ PostEpisode(body))
              => /\ res'.status = 404
                 /\ episodes' = episodes
                 /\ disk'[Path(EPISODES_FILE)] = disk[Path(EPISODES_FILE)]]_vars

\* a request for the untracked anime 2 has been refused while the episode
\* collection holds an episode of anime 1
C16_Witness ==
    /\ res.op = "postEpisode"
    /\ res.status = 404
    /\ ~Some(customAnimeList, LAMBDA a : a.id = 2)
    /\ episodes # <<>>
    /\ \A i \in DOMAIN episodes : episodes[i].animeId = 1
    /\ disk[Path(EPISODES_FILE)] = Json(episodes)

\* C17: POST /api/episodes without the link field (iframeSrc) is answered
\* with a missing-field error and adds no episode.
C17_MissingLinkRejected ==
    [][\A body \in EpisodesBodies :
          (res'.op = "postEpisode" /\ body.iframeSrc = ""
             /\ Some(customAnimeList, LAMBDA a : a.id = body.animeId)
             /\ PostEpisode(body))
              => /\ res'.status = 400
                 /\ episodes' = episodes]_vars

\* C18: no two episodes of the episode collection have the same id.
C18_EpisodeIdsUnique ==
    \A i, j \in DOMAIN episodes : episodes[i].id = episodes[j].id => i = j

\* C19: PUT /api/episodes/:id of an existing episode gives the episode the
\* patch's value for every field of the patch except id, keeps the value of
\* every field that is not in the patch, keeps the id, and leaves every other
\* episode as it was.
C19_UpdateIsMergePatch ==
    [][\A id \in EpisodeIds, patch \in Episodes2Patches :
          (res'.op = "putEpisode" /\ res'.status = 200 /\ PutEpisode2(id, patch))
              => LET k == FindIndex(episodes, LAMBDA e : e.id = id)
                     old == episodes[k]
                     new == episodes'[k]
                 IN /\ Len(episodes') = Len(episodes)
                    /\ \A j \in DOMAIN episodes : j # k => episodes'[j] = episodes[j]
                    /\ new.id = old.id
                    /\ DOMAIN new = DOMAIN old \cup DOMAIN patch
                    /\ \A f \in DOMAIN patch \ {"id"} : new[f] = patch[f]
                    /\ \A f \in DOMAIN old \ DOMAIN patch : new[f] = old[f]]_vars

\* C20: when the provider call of POST /api/anime for an untracked id fails,
\* the anime is still added to the anime collection and written to its file.
C20_ProviderFailureAddsStub ==
    [][\A i \in DOMAIN pending, p \in ProviderOutcomes \ {"ok"} :
          (res'.op = "postAnime"
             /\ ~Some(customAnimeList, LAMBDA a : a.id = pending[i].anilistId)
             /\ PostAnimeEnd(i, p))
              => /\ res'.status < 400
                 /\ Some(customAnimeList', LAMBDA a : a.id = pending[i].anilistId)
                 /\ Some(readData(disk', CUSTOM_ANIME_FILE),
                         LAMBDA a : a.id = pending[i].anilistId)]_vars

(***************************************************************************)
(* Properties of the calls to the metadata provider and of the cache.      *)
(***************************************************************************)
\* C21: GET /api/anime answers 200 with one item per anime of the anime
\* collection, in the collection's order; the item of an anime whose
\* provider call failed is the stored entry; no provider failure makes the
\* request fail.
C21_ListFallsBackPerItem ==
    [][/\ res'.op = "listAnime"
          => /\ res'.status = 200
             /\ Len(res'.items) = Len(customAnimeList)
             /\ \A k \in DOMAIN customAnimeList :
                   res'.items[k].id = customAnimeList[k].id
       /\ \A i \in DOMAIN pending, p \in {"apiError", "networkError"} :
             ListAnimeResume(i, p)
                 => LET k == pending[i].k
                        out == IF res'.op = "listAnime" THEN res'.items
                               ELSE pending'[i].out
                    IN out[k] = [id |-> customAnimeList[k].id, from |-> "stored"]]_vars

\* a list answered with the stored entry of anime 1, whose provider call
\* failed, and the provider's details of anime 2
C21_Witness ==
    /\ res.op = "listAnime"
    /\ res.status = 200
    /\ res.items = <<[id |-> 1, from |-> "stored"], [id |-> 2, from |-> "provider"]>>

\* The time to live of a cache entry, in clock ticks.
CacheTTL == MaxClock

\* C22: GET /api/anime/:id is not answered from the cache once CacheTTL has
\* passed since the entry was put.
C22_CacheEntryExpires ==
    [][(res'.op = "getAnime" /\ res'.status = 200 /\ res'.from = "cache")
          => clock - animeCache[res'.id].dateAdded < CacheTTL]_vars

\* C23: a handler suspended at the provider is eventually answered, whether
\* or not the provider replies.  When MaxPending handlers are suspended no
\* further request is taken, so one of them is answered.
C23_ProviderCallTimesOut ==
    (Len(pending) = MaxPending) ~> (Len(pending) < MaxPending)

(***************************************************************************)
(* Properties of the bulk import of revision 2.                            *)
(***************************************************************************)
\* An item of a batch fails when it is null or when its number is the number
\* of an episode the anime already has or of an earlier item of the batch.
ItemFails(body, k) ==
    \/ body.episodes[k] = Null
    \/ \E i \in DOMAIN episodes : /\ episodes[i].animeId = body.animeId
                                  /\ episodes[i].number = body.episodes[k].number
    \/ \E j \in 1..(k - 1) : /\ body.episodes[j] # Null
                             /\ body.episodes[j].number = body.episodes[k].number

\* C24: POST /api/bulk-import for a tracked anime answers with an errors list
\* that has one entry per failing item of the batch, and adds every item
\* that does not fail.
C24_BulkCollectsErrors ==
    [][\A body \in BulkBodies :
          (res'.op = "bulkImport" /\ body.episodes # <<>>
             /\ Some(customAnimeList, LAMBDA a : a.id = body.animeId)
             /\ BulkImport(body))
              => LET failing == {k \in DOMAIN body.episodes : ItemFails(body, k)}
                 IN /\ "errors" \in DOMAIN res'
                    /\ Len(res'.errors) = Cardinality(failing)
                    /\ Len(episodes') = Len(episodes) + Len(body.episodes)
                                           - Cardinality(failing)]_vars

\* C25: after POST /api/bulk-import with replaceExisting the episodes of the
\* anime are the items of the batch, one episode per item, in order.
C25_ReplaceExistingReplaces ==
    [][\A body \in BulkBodies :
          (res'.op = "bulkImport" /\ res'.status = 201 /\ body.replaceExisting
             /\ BulkImport(body))
              => LET after == Filter(episodes', LAMBDA e : e.animeId = body.animeId)
                 IN /\ Len(after) = Len(body.episodes)
                    /\ \A k \in DOMAIN after :
                          after[k].number = body.episodes[k].number]_vars

(***************************************************************************)
(* Properties of the store: writeData and readData.                        *)
(***************************************************************************)
\* C26: no writeData call ends with an exception, and a call that returns
\* true leaves the target file holding the collection it was given.
C26_WriteDataNeverThrows ==
    [][res'.op = "writeData"
          => /\ ~res'.threw
             /\ res'.status = 1 => disk'[Path(StoreFile)] = Json(res'.data)]_vars

\* a call that returned false after the restoring copy failed half way
C26_Witness ==
    /\ res.op = "writeData"
    /\ res.status = 0
    /\ ~res.threw
    /\ disk[Path(StoreFile)] = Partial

\* C27: readData returns the collection held by the file when the file
\* holds JSON, and the empty sequence when the file is missing or corrupt.
C27_ReadDataFallsBackToEmpty ==
    [][res'.op = "readData"
          => res'.data = IF disk[Path(StoreFile)].kind = "json"
                         THEN disk[Path(StoreFile)].data
                         ELSE <<>>]_vars

\* a read of a half-written file while its backup holds a collection
C27_Witness ==
    /\ res.op = "readData"
    /\ res.data = <<>>
    /\ disk[Path(StoreFile)] = Partial
    /\ disk[BackupPath(StoreFile)].kind = "json"
    /\ disk[BackupPath(StoreFile)].data # <<>>

(***************************************************************************)
(* Properties of the dub flag.                                             *)
(***************************************************************************)
\* C28: when PUT /api/episodes/:id sets hasTagalogDub to true on an episode
\* whose hasTagalogDub was not true, the episode's anime has hasTagalogDub
\* true in the anime collection afterwards.
C28_UpdateEpisodePropagatesDub ==
    [][\A id \in EpisodeIds, patch \in Episodes2Patches :
          (/\ res'.op = "putEpisode"
           /\ res'.status = 200
           /\ "hasTagalogDub" \in DOMAIN patch
           /\ patch.hasTagalogDub = TRUE
           /\ Some(episodes, LAMBDA e : e.id = id)
           /\ episodes[FindIndex(episodes, LAMBDA e : e.id = id)].hasTagalogDub # TRUE
           /\ PutEpisode2(id, patch))
              => LET k == FindIndex(episodes, LAMBDA e : e.id = id)
                 IN \A a \in DOMAIN customAnimeList' :
                       customAnimeList'[a].id = episodes'[k].animeId
                           => customAnimeList'[a].hasTagalogDub = TRUE]_vars

\* C30: the cache entry of a tracked anime has the hasTagalogDub of the
\* anime's entry in the anime collection (false when the entry has none).
C30_CacheDubMatchesStored ==
    \A i \in DOMAIN customAnimeList :
        customAnimeList[i].id \in DOMAIN animeCache
            => animeCache[customAnimeList[i].id].hasTagalogDub
                   = (IF "hasTagalogDub" \in DOMAIN customAnimeList[i]
                      THEN customAnimeList[i].hasTagalogDub ELSE FALSE)

(***************************************************************************)
(* Properties of requests in flight at the same time.                      *)
(***************************************************************************)
\* C29: when POST /api/anime requests for different untracked ids are
\* suspended at the provider at the same time and each is answered with
\* success, the anime file holds all their ids: a successful add keeps every
\* id that an earlier successful add has put in the file, and puts its own.
C29_ConcurrentAddsBothPersisted ==
    [][\A i \in DOMAIN pending :
          (res'.op = "postAnime" /\ res'.status = 201 /\ FBPostAnimeEnd(i, "ok"))
              => /\ Some(readData(disk', CUSTOM_ANIME_FILE),
                         LAMBDA a : a.id = pending[i].anilistId)
                 /\ \A k \in DOMAIN readData(disk, CUSTOM_ANIME_FILE) :
                       Some(readData(disk', CUSTOM_ANIME_FILE),
                            LAMBDA a : a.id = readData(disk, CUSTOM_ANIME_FILE)[k].id)]_vars

(***************************************************************************)
(* Properties of the data files.                                           *)
(***************************************************************************)
\* every episode of the episodes file in directory d has the animeId of an
\* anime of the anime file
FilesReferential(d) ==
    \A i \in DOMAIN readData(d, EPISODES_FILE) :
        Some(readData(d, CUSTOM_ANIME_FILE),
             LAMBDA a : a.id = readData(d, EPISODES_FILE)[i].animeId)

\* C31: if every episode of the episodes file references an anime of the
\* anime file before DELETE /api/anime/:id, the same holds after it, whether
\* it answers 200 or 500.
C31_FilesStayReferential ==
    [][(res'.op = "deleteAnime" /\ FilesReferential(disk))
          => FilesReferential(disk')]_vars

(***************************************************************************)
(* Properties of requests that are refused or fail.                        *)
(***************************************************************************)
\* C32: when the provider call of POST /api/anime fails, the request is
\* answered with an error and the anime collection, the anime file and the
\* cache are as they were.
C32_ProviderFailureChangesNothing ==
    [][\A i \in DOMAIN pending, p \in ProviderOutcomes \ {"ok"} :
          (res'.op = "postAnime" /\ PostAnimeEnd(i, p))
              => /\ res'.status >= 400
                 /\ customAnimeList' = customAnimeList
                 /\ animeCache' = animeCache
                 /\ disk'[Path(CUSTOM_ANIME_FILE)] = disk[Path(CUSTOM_ANIME_FILE)]]_vars

\* an add of anime 2 has failed at the provider (no write fails in SpecAdd,
\* so a 500 comes from a provider call without response) while anime 1 is
\* tracked, written and cached
C32_Witness ==
    /\ res = [op |-> "postAnime", status |-> 500]
    /\ Len(customAnimeList) = 1
    /\ customAnimeList[1].id = 1
    /\ disk[Path(CUSTOM_ANIME_FILE)] = Json(customAnimeList)
    /\ DOMAIN animeCache = {1}

\* C34: POST /api/import with a body that is no object, or in which anime,
\* episodes or scheduled is not an array, is answered 400, and the three
\* collections, the data files and the cache are as they were.
C34_InvalidImportRejected ==
    [][(res'.op = "import"
          /\ (~res'.body.exported \/ ArrayFields(res'.body) # ImportFields))
          => /\ res'.status = 400
             /\ UNCHANGED <<customAnimeList, episodes, scheduledAnime, animeCache,
                            disk>>]_vars

\* an import whose scheduled field alone is not an array has been refused
\* by a server that holds anime, episodes and a cache entry
C34_Witness ==
    /\ res.op = "import"
    /\ res.status = 400
    /\ res.body.exported
    /\ ArrayFields(res.body) = {"anime", "episodes"}
    /\ customAnimeList # <<>>
    /\ episodes # <<>>
    /\ DOMAIN animeCache # {}


\* C33: POST /api/browser-backup (body an object, as the JSON body parser
\* delivers it) restores only when the three in-memory collections are all
\* empty; when the server holds any data the three collections, the files and
\* the cache are unchanged and the answer carries the current counts.
C33_BackupOnlyIntoEmptyServer ==
    [][(res'.op = "browserBackup" /\ res'.body.exported)
          => /\ res'.applied
                => (customAnimeList = <<>> /\ episodes = <<>> /\ scheduledAnime = <<>>)
             /\ (customAnimeList # <<>> \/ episodes # <<>> \/ scheduledAnime # <<>>)
                => /\ UNCHANGED <<customAnimeList, episodes, scheduledAnime,
                                  animeCache, disk>>
                   /\ res'.status = 200
                   /\ res'.counts = Counts(customAnimeList, episodes,
                                           scheduledAnime)]_vars

C33_Witness ==
    /\ res.op = "browserBackup" /\ res.status = 200 /\ ~res.applied
    /\ ArrayFields(res.body) = ImportFields /\ res.body.episodes # <<>>
    /\ customAnimeList # <<>> /\ episodes = <<>>
    /\ DOMAIN animeCache # {}
    /\ res.counts = <<1, 0, 0>>


\* C35: DELETE /api/episodes/:id for an id some episode has removes exactly
\* one episode, one that has the id, and leaves the other episodes (in their
\* order), the anime collection and the scheduled collection unchanged; for
\* an id no episode has it answers 404 and changes nothing.
C35_DeleteEpisodeRemovesOne ==
    [][\A id \in EpisodeIds :
          (res'.op = "deleteEpisode" /\ DeleteEpisode(id))
              => IF Some(episodes, LAMBDA e : e.id = id)
                 THEN /\ res'.status # 404
                      /\ \E k \in DOMAIN episodes :
                            /\ episodes[k].id = id
                            /\ episodes' = Splice(episodes, k)
                      /\ UNCHANGED <<customAnimeList, scheduledAnime>>
                 ELSE /\ res'.status = 404
                      /\ UNCHANGED <<customAnimeList, episodes, scheduledAnime,
                                     animeCache, disk>>]_vars

C35_Witness ==
    /\ res = [op |-> "deleteEpisode", status |-> 200]
    /\ Len(episodes) = 1
    /\ episodes[1].id = 0
    /\ clock = 0
    /\ disk[Path(EPISODES_FILE)] = Json(episodes)


\* C36: POST /api/bulk-import appends its new episodes to the collection and
\* adds no episode whose number an episode of the same anime already had
\* before the request, nor two episodes with the same number: an input item
\* whose number is taken, by an existing episode or by an earlier item of the
\* batch, is skipped.
C36_BulkSkipsTakenNumbers ==
    [][res'.op = "bulkImport"
          => LET new == SubSeq(episodes', Len(episodes) + 1, Len(episodes'))
             IN /\ Len(episodes') >= Len(episodes)
                /\ SubSeq(episodes', 1, Len(episodes)) = episodes
                /\ \A i \in DOMAIN new :
                      ~Some(episodes, LAMBDA e : /\ e.animeId = new[i].animeId
                                                 /\ e.number = new[i].number)
                /\ \A i, j \in DOMAIN new :
                      (new[i].number = new[j].number) => i = j]_vars

C36_Witness ==
    /\ res = [op |-> "bulkImport", status |-> 201, addedEpisodes |-> <<>>]
    /\ Len(episodes) = 2
    /\ episodes[1].animeId = 1 /\ episodes[1].number = Num(1)
    /\ episodes[2].animeId = 1 /\ episodes[2].number = Num(2)


C38_SyncEventuallyCatchesUp ==
    <>[][UNCHANGED <<customAnimeList, episodes, scheduledAnime>>]_vars => <>[]InSync

C38_Witness ==
    /\ res = NoRes
    /\ faultsLeft = 0
    /\ InSync
    /\ Len(episodes) = 1
    /\ customAnimeList # <<>>

====
